---- MODULE Spec2Model ----
(***************************************************************************)
(* A model of uniqued, the content-deduplication daemon (src/uniqued.c),   *)
(* and of its client library (src/unique-bytes.c).                         *)
(*                                                                         *)
(* Daemon state: the two global hash tables (blobs, peers), the two size   *)
(* counters, the daemon's file-descriptor table, and what the last handler *)
(* invocation put out: its g_debug lines and its reply.  One action per    *)
(* D-Bus handler: make_unique, forget, name_owner_changed.  The daemon     *)
(* runs a single-threaded main loop, so every handler is one atomic step.  *)
(*                                                                         *)
(* Client state: the descriptors, mappings and MappedData records of one   *)
(* process, the GBytes it handed to its caller, and the messages between   *)
(* it and the daemon.  One action per entry point and callback.            *)
(***************************************************************************)
EXTENDS Integers, Sequences, FiniteSets, TLC

VARIABLES
  blobs,               \* static GHashTable *blobs: sha256 -> Blob
  peers,               \* static GHashTable *peers: name -> Peer
  real_blob_size,      \* static gsize real_blob_size
  apparent_blob_size,  \* static gsize apparent_blob_size
  fdtab,               \* the daemon's open descriptors: fd number -> open file
  log,                 \* the g_debug lines of the last handler invocation
                       \* about blobs and peers (the "Got ... request" line
                       \* and those of print_stats left out)
  reply,               \* what the last handler invocation sent back
  issued,              \* history: per sender, the handles returned to it by the
                       \* steps of this behaviour since its Peer record was
                       \* created, in order of issue
  issued_before,       \* history: per sender, the last handle h of the run
                       \* 1..h its Peer record had issued before the behaviour
                       \* starts (0: none)
  bus,                 \* client: whether get_bus () has a connection (static)
  cfds,                \* client: its open descriptors: fd number -> open file
  maps,                \* client: its file mappings: address -> [file, len, prot]
  records,             \* client: the live MappedData: pointer -> struct
  gbytes,              \* client: the GBytes returned to the caller, in order
  outq,                \* the client's messages the daemon has not handled yet
  inq,                 \* the replies the client has not dispatched yet
  aborted,             \* client: whether g_assert has ended the process
  sent                 \* history: what the client's calls came to, in order

dvars == <<blobs, peers, real_blob_size, apparent_blob_size, fdtab, log, reply, issued, issued_before>>

cvars == <<bus, cfds, maps, records, gbytes, outq, inq, aborted, sent>>

vars == <<dvars, cvars>>

-----------------------------------------------------------------------------
(* Bounds of the model.                                                    *)

\* Handles the live Peer records may have issued, all together, in the steps
\* of a behaviour (caps the growth of the handle counters).
MaxIssued == 2

\* Descriptor numbers the daemon's descriptor table is followed over: 0..MaxFd.
MaxFd == 3

-----------------------------------------------------------------------------
(* guint32 arithmetic.  A guint32 is kept as two 16-bit limbs <<hi, lo>>,   *)
(* so that the counter keeps its full 32-bit width.                        *)

Limb == 65536

U32(n) == <<n \div Limb, n % Limb>>

G_MAXUINT32 == <<Limb - 1, Limb - 1>>

\* x++ on a guint32: the value after the increment (wraps at 2^32).
U32Inc(x) ==
  IF x[2] < Limb - 1 THEN <<x[1], x[2] + 1>>
  ELSE <<(x[1] + 1) % Limb, 0>>

U32Le(x, y) == x[1] < y[1] \/ (x[1] = y[1] /\ x[2] <= y[2])

-----------------------------------------------------------------------------
(* GHashTable as a finite function.                                         *)

EmptyTable == [k \in {} |-> k]

TablePut(t, k, v) == [x \in (DOMAIN t) \cup {k} |-> IF x = k THEN v ELSE t[x]]

TableDel(t, k) == [x \in (DOMAIN t) \ {k} |-> t[x]]

-----------------------------------------------------------------------------
(* Bus names are strings; kept as sequences of characters so that          *)
(* name[0] == ':' is the test the code makes.                              *)

EmptyName == <<>>

SenderA == <<":", "1", ".", "1">>
SenderB == <<":", "1", ".", "2">>

\* The unique names of the clients that talk to the daemon.
Senders == {SenderA, SenderB}

\* A well-known name, as NameOwnerChanged also reports them.
WellKnownName == <<"o", "r", "g">>

-----------------------------------------------------------------------------
(* Files.  An open file is [data, seals, memfd, readable]:                 *)
(*   data     its bytes                                                    *)
(*   seals    the seals F_GET_SEALS reports                                *)
(*   memfd    FALSE for a file F_GET_SEALS fails on                        *)
(*   readable FALSE for a descriptor pread fails on (opened O_WRONLY)      *)

ALL_SEALS == {"F_SEAL_SEAL", "F_SEAL_SHRINK", "F_SEAL_GROW", "F_SEAL_WRITE"}

\* "Hello, World!" with its terminating NUL: the 14 bytes the test client submits.
HelloWorld == <<72, 101, 108, 108, 111, 44, 32, 87, 111, 114, 108, 100, 33, 0>>

\* The byte sequences clients submit: the empty one and a 14-byte one.
Contents == {<<>>, HelloWorld}

File(d, s, m, r) == [data |-> d, seals |-> s, memfd |-> m, readable |-> r]

\* What create_sealed_memfd_for_data of the client library makes of the bytes.
SealedFile(d) == File(d, ALL_SEALS, TRUE, TRUE)

Unsealed == File(HelloWorld, {}, TRUE, TRUE)

\* Files the daemon has to refuse: a seal missing, no seals, not a memfd,
\* sealed but not open for reading.
BadFiles ==
  {File(HelloWorld, ALL_SEALS \ {s}, TRUE, TRUE) : s \in ALL_SEALS}
    \cup {Unsealed, File(HelloWorld, {}, FALSE, TRUE), File(HelloWorld, ALL_SEALS, TRUE, FALSE)}

-----------------------------------------------------------------------------
(* The daemon's descriptor table.  The kernel hands out the lowest free    *)
(* descriptor number; close() of a number that is not open does nothing.   *)

FdNumbers == 0..MaxFd

LowestFree(t) == CHOOSE n \in FdNumbers : n \notin DOMAIN t /\ \A m \in 0..(n - 1) : m \in DOMAIN t

close(t, fd) == TableDel(t, fd)

\* The descriptors of a message's GUnixFDList arrive open in the daemon:
\* [tab |-> the table with them added, fds |-> their numbers, in list order].
RECURSIVE ReceiveFds(_, _)
ReceiveFds(t, files) ==
  IF files = <<>> THEN [tab |-> t, fds |-> <<>>]
  ELSE LET n == LowestFree(t)
           rest == ReceiveFds(TablePut(t, n, Head(files)), Tail(files))
       IN [tab |-> rest.tab, fds |-> <<n>> \o rest.fds]

\* close() of every descriptor in a set.
RECURSIVE CloseAll(_, _)
CloseAll(t, S) ==
  IF S = {} THEN t
  ELSE LET n == CHOOSE x \in S : TRUE IN CloseAll(close(t, n), S \ {n})

-----------------------------------------------------------------------------
(* SHA-256 is stood in for by a polynomial hash of the bytes fed so far,   *)
(* which tells apart the byte sequences of the model (CollisionFree).      *)

BufSize == 65536

RECURSIVE g_checksum_update(_, _)
g_checksum_update(sum, buf) ==
  IF buf = <<>> THEN sum
  ELSE g_checksum_update((sum * 31 + Head(buf) + 1) % 1000003, Tail(buf))

\* pread (fd, buf, sizeof (buf), offset): the bytes read.
pread(f, offset) ==
  SubSeq(f.data, offset + 1, IF Len(f.data) < offset + BufSize THEN Len(f.data) ELSE offset + BufSize)

\* The do/while loop of checksum_from_fd, from `offset` on.
RECURSIVE ChecksumLoop(_, _, _)
ChecksumLoop(sum, f, offset) ==
  LET buf == pread(f, offset)
  IN IF Len(buf) > 0 THEN ChecksumLoop(g_checksum_update(sum, buf), f, offset + Len(buf))
     ELSE sum

\* [ok |-> the gboolean returned, sum |-> the checksum afterwards]
checksum_from_fd(t, fd) ==
  IF fd \notin DOMAIN t \/ ~t[fd].readable THEN [ok |-> FALSE, sum |-> 0]
  ELSE [ok |-> TRUE, sum |-> ChecksumLoop(0, t[fd], 0)]

\* The digest of a byte sequence (what a correct hashing of it gives).
Sha256(data) == g_checksum_update(0, data)

CollisionFree == \A c1, c2 \in Contents : Sha256(c1) = Sha256(c2) => c1 = c2

-----------------------------------------------------------------------------
(* The daemon's global state as one value D, threaded through the calls:   *)
(* [blobs, peers, real_blob_size, apparent_blob_size, fdtab, log].         *)
(* A Blob * is the key of the blob in the blobs table.                     *)

Daemon(b, p, r, a, t) ==
  [blobs |-> b, peers |-> p, real_blob_size |-> r, apparent_blob_size |-> a, fdtab |-> t,
   log |-> <<>>]

g_debug(D, line) == [D EXCEPT !.log = Append(@, line)]

blob_ref(D, blob) == [D EXCEPT !.blobs[blob].ref_count = @ + 1]

blob_unref(D, blob) ==
  LET b == D.blobs[blob]
  IN IF b.ref_count - 1 = 0
     THEN [g_debug(D, <<"Blob destroyed", b.sha256>>)
             EXCEPT !.real_blob_size = @ - b.len,
                    !.blobs = TableDel(@, b.sha256),
                    !.fdtab = close(@, b.fd)]
     ELSE [D EXCEPT !.blobs[blob].ref_count = @ - 1]

\* Variant of blob_new that leaves real_blob_size alone.
blob_new_unaccounted(D, fd, sha256) ==
  LET len == IF fd \in DOMAIN D.fdtab THEN Len(D.fdtab[fd].data) ELSE 0
  IN [D EXCEPT !.blobs = TablePut(@, sha256,
                                  [sha256 |-> sha256, len |-> len, fd |-> fd, ref_count |-> 1])]

\* fstat() of the descriptor gives the length; g_new0 leaves it 0 if it fails.
blob_new(D, fd, sha256) ==
  LET len == IF fd \in DOMAIN D.fdtab THEN Len(D.fdtab[fd].data) ELSE 0
  IN [D EXCEPT !.real_blob_size = @ + len,
               !.blobs = TablePut(@, sha256,
                                  [sha256 |-> sha256, len |-> len, fd |-> fd, ref_count |-> 1])]

\* Variant of lookup_blob that returns the blob without taking a reference.
lookup_blob_borrowed(D, sha256) ==
  IF sha256 \in DOMAIN D.blobs THEN [found |-> TRUE, D |-> D] ELSE [found |-> FALSE, D |-> D]

\* Variant of lookup_blob that never finds the blob.
lookup_blob_miss(D, sha256) == [found |-> FALSE, D |-> D]

\* [found |-> blob != NULL, D |-> the state afterwards]
lookup_blob(D, sha256) ==
  IF sha256 \in DOMAIN D.blobs
  THEN [found |-> TRUE, D |-> blob_ref(D, sha256)]
  ELSE [found |-> FALSE, D |-> D]

\* Variant of removed_blob_from_peer_cb that leaves apparent_blob_size alone.
removed_blob_from_peer_cb_unaccounted(D, blob) == blob_unref(D, blob)

removed_blob_from_peer_cb(D, blob) ==
  blob_unref([D EXCEPT !.apparent_blob_size = @ - D.blobs[blob].len], blob)

\* Variant of lookup_peer that makes a new record without looking for one.
lookup_peer_always_new(D, name) ==
  [D EXCEPT !.peers = TablePut(@, name,
                               [name |-> name, next_blob_id |-> U32(1), blobs |-> EmptyTable])]

lookup_peer(D, name) ==
  IF name \in DOMAIN D.peers THEN D
  ELSE [D EXCEPT !.peers = TablePut(@, name,
                                    [name |-> name, next_blob_id |-> U32(1), blobs |-> EmptyTable])]

\* g_hash_table_destroy (peer->blobs): the value destroy notify runs on every entry.
RECURSIVE DestroyEntries(_, _)
DestroyEntries(D, entries) ==
  IF DOMAIN entries = {} THEN D
  ELSE LET h == CHOOSE x \in DOMAIN entries : TRUE
       IN DestroyEntries(removed_blob_from_peer_cb(D, entries[h]), TableDel(entries, h))

\* Variant of peer_free that frees the record without destroying its table.
peer_free_leaking(D, peer) == D

peer_free(D, peer) == DestroyEntries(D, peer.blobs)

\* g_hash_table_insert on a table with a value destroy notify: an entry already
\* under the key has its value replaced, and the old value is destroyed.
InsertEntry(D, name, blob_id, blob) ==
  LET old == D.peers[name].blobs
      D1 == [D EXCEPT !.peers[name].blobs = TablePut(@, blob_id, blob)]
  IN IF blob_id \in DOMAIN old THEN removed_blob_from_peer_cb(D1, old[blob_id]) ELSE D1

\* Variant of add_blob_to_peer that leaves apparent_blob_size alone.
add_blob_to_peer_unaccounted(D, peer_name, blob) ==
  LET D1 == lookup_peer(D, peer_name)
      blob_id == D1.peers[peer_name].next_blob_id
      D2 == [D1 EXCEPT !.peers[peer_name].next_blob_id = U32Inc(@)]
      D4 == InsertEntry(blob_ref(D2, blob), peer_name, blob_id, blob)
  IN [D |-> g_debug(D4, <<"Added blob for peer", blob_id, blob, peer_name>>),
      blob_id |-> blob_id]

\* [D |-> the state afterwards, blob_id |-> the guint32 returned]
add_blob_to_peer(D, peer_name, blob) ==
  LET D1 == lookup_peer(D, peer_name)
      blob_id == D1.peers[peer_name].next_blob_id
      D2 == [D1 EXCEPT !.peers[peer_name].next_blob_id = U32Inc(@)]
      D3 == [D2 EXCEPT !.apparent_blob_size = @ + D2.blobs[blob].len]
      D4 == InsertEntry(blob_ref(D3, blob), peer_name, blob_id, blob)
  IN [D |-> g_debug(D4, <<"Added blob for peer", blob_id, blob, peer_name>>),
      blob_id |-> blob_id]

\* Variant of remove_blob_from_peer that takes the handle out of the map of
\* any peer that has it, not of the caller's.
remove_blob_from_peer_any(D, peer_name, blob_id) ==
  LET D1 == g_debug(lookup_peer(D, peer_name), <<"Removing blob for peer", blob_id, peer_name>>)
      holders == {p \in DOMAIN D1.peers : blob_id \in DOMAIN D1.peers[p].blobs}
  IN IF holders # {}
     THEN LET p == CHOOSE x \in holders : x # peer_name \/ holders = {peer_name}
          IN removed_blob_from_peer_cb(
               [D1 EXCEPT !.peers[p].blobs = TableDel(@, blob_id)], D1.peers[p].blobs[blob_id])
     ELSE D1

\* g_hash_table_remove: a key that is not there is left alone.
remove_blob_from_peer(D, peer_name, blob_id) ==
  LET D1 == g_debug(lookup_peer(D, peer_name), <<"Removing blob for peer", blob_id, peer_name>>)
      entries == D1.peers[peer_name].blobs
  IN IF blob_id \in DOMAIN entries
     THEN removed_blob_from_peer_cb(
            [D1 EXCEPT !.peers[peer_name].blobs = TableDel(@, blob_id)], entries[blob_id])
     ELSE D1

-----------------------------------------------------------------------------
(* Replies.                                                                 *)

NoReply == [type |-> "none"]

ErrorReply(code, message) == [type |-> "error", code |-> code, message |-> message]

\* A method return: the body is the tuple of out arguments, fd_list the
\* descriptors attached to the message, each [dup_of |-> the daemon descriptor
\* it duplicates, file |-> the open file it refers to].
ReturnValue(body, fd_list) == [type |-> "return", body |-> body, fd_list |-> fd_list]

-----------------------------------------------------------------------------
(* The method handlers, as functions of the state D at entry.              *)

\* fd_list is [null |-> fd_list == NULL, fds |-> the descriptor numbers in it].
\* A negative handle passes the length test and fds[handle] reads outside the
\* array: `garbage` is the int found there.
\* [fd |-> the int returned, tab |-> the descriptor table afterwards,
\*  stolen |-> whether the list was emptied]
steal_one_fd_from_list(t, fd_list, handle, garbage) ==
  IF fd_list.null \/ handle >= Len(fd_list.fds)
  THEN [fd |-> -1, tab |-> t, stolen |-> FALSE]
  ELSE [fd |-> IF handle >= 0 THEN fd_list.fds[handle + 1] ELSE garbage,
        tab |-> CloseAll(t, {fd_list.fds[i] : i \in {j \in 1..Len(fd_list.fds) : j - 1 # handle}}),
        stolen |-> TRUE]

\* Variant of the seal test that only asks for F_SEAL_WRITE.
NotSealed_write_only(t, fd) ==
  \/ fd \notin DOMAIN t
  \/ ~t[fd].memfd
  \/ "F_SEAL_WRITE" \notin t[fd].seals

\* Variant of the seal test that is content with any one of the four seals.
NotSealed_any_seal(t, fd) ==
  \/ fd \notin DOMAIN t
  \/ ~t[fd].memfd
  \/ (t[fd].seals \cap ALL_SEALS) = {}

\* seals == -1 ||  (seals & ALL_SEALS) != ALL_SEALS
NotSealed(t, fd) ==
  \/ fd \notin DOMAIN t
  \/ ~t[fd].memfd
  \/ (t[fd].seals \cap ALL_SEALS) # ALL_SEALS

\* close_fd of the auto_fd variable at scope exit.
close_fd(t, fd) == IF fd >= 0 THEN close(t, fd) ELSE t

\* The reply on a miss: an empty "ah" array, no descriptor attached.
MissReply(blob_id) == ReturnValue(<<(<<>>), blob_id>>, <<>>)

\* Variant of the reply on a hit that attaches the descriptor just received.
HitReply_received(t, blob_fd, fd, blob_id) ==
  ReturnValue(<<(<<0>>), blob_id>>, <<[dup_of |-> fd, file |-> t[fd]]>>)

\* The reply on a hit: g_unix_fd_list_append (ret_fds, blob->fd) attaches a
\* duplicate of the blob's descriptor, and its index 0 goes into the array.
\* t is the descriptor table, fd the descriptor received with the request.
HitReply(t, blob_fd, fd, blob_id) ==
  ReturnValue(<<(<<0>>), blob_id>>, <<[dup_of |-> blob_fd, file |-> t[blob_fd]]>>)

\* Variant of the storing part of make_unique that looks up the sender's Peer
\* record before it looks up the blob.
MakeUniqueStore_peer_first(D, sender, fd, sha256, dup_fails) ==
  LET L == lookup_blob(lookup_peer(D, sender), sha256)
  IN IF ~L.found
     THEN LET D1 == g_debug(blob_new(L.D, fd, sha256), <<"Created new blob", sha256>>)
              A == add_blob_to_peer(D1, sender, sha256)
          IN [D |-> blob_unref(A.D, sha256),
              reply |-> MissReply(A.blob_id),
              allocated |-> TRUE]
     ELSE LET blob == L.D.blobs[sha256]
          IN IF blob.fd \notin DOMAIN L.D.fdtab \/ dup_fails
             THEN LET D1 == blob_unref(L.D, sha256)
                  IN [D |-> [D1 EXCEPT !.fdtab = close_fd(@, fd)],
                      reply |-> ErrorReply("G_DBUS_ERROR_FAILED", "Failed to dup fd"),
                      allocated |-> FALSE]
             ELSE LET A == add_blob_to_peer(g_debug(L.D, <<"Reusing old blob", sha256>>),
                                            sender, sha256)
                      D1 == blob_unref(A.D, sha256)
                  IN [D |-> [D1 EXCEPT !.fdtab = close_fd(@, fd)],
                      reply |-> HitReply(L.D.fdtab, blob.fd, fd, A.blob_id),
                      allocated |-> TRUE]

\* The part of make_unique from lookup_blob on (lines 317-344), with the
\* cleanups of blob and fd at return.
\* dup_fails: whether duplicating an open descriptor fails (descriptor limit).
MakeUniqueStore(D, sender, fd, sha256, dup_fails) ==
  LET L == lookup_blob(D, sha256)
  IN IF ~L.found
     THEN LET D1 == g_debug(blob_new(L.D, fd, sha256), <<"Created new blob", sha256>>)
              A == add_blob_to_peer(D1, sender, sha256)
          IN [D |-> blob_unref(A.D, sha256),
              reply |-> MissReply(A.blob_id),
              allocated |-> TRUE]
     ELSE LET blob == L.D.blobs[sha256]
          IN IF blob.fd \notin DOMAIN L.D.fdtab \/ dup_fails
             THEN LET D1 == blob_unref(L.D, sha256)
                  IN [D |-> [D1 EXCEPT !.fdtab = close_fd(@, fd)],
                      reply |-> ErrorReply("G_DBUS_ERROR_FAILED", "Failed to dup fd"),
                      allocated |-> FALSE]
             ELSE LET A == add_blob_to_peer(g_debug(L.D, <<"Reusing old blob", sha256>>),
                                            sender, sha256)
                      D1 == blob_unref(A.D, sha256)
                  IN [D |-> [D1 EXCEPT !.fdtab = close_fd(@, fd)],
                      reply |-> HitReply(L.D.fdtab, blob.fd, fd, A.blob_id),
                      allocated |-> TRUE]

\* [D |-> the state at return, reply |-> the reply sent, allocated |-> whether a
\*  handle was issued, stolen |-> whether the request's descriptor list was emptied]
make_unique(D, sender, signature, fd_list, handle, garbage, dup_fails) ==
  IF signature # "(h)"
  THEN [D |-> D, reply |-> ErrorReply("G_DBUS_ERROR_INVALID_ARGS", "Wrong argument types"),
        allocated |-> FALSE, stolen |-> FALSE]
  ELSE
    LET S == steal_one_fd_from_list(D.fdtab, fd_list, handle, garbage)
        fd == S.fd
        D1 == [D EXCEPT !.fdtab = S.tab]
    IN IF fd = -1
       THEN [D |-> D1, reply |-> ErrorReply("G_DBUS_ERROR_INVALID_ARGS", "No fd passed"),
             allocated |-> FALSE, stolen |-> S.stolen]
       ELSE IF NotSealed(D1.fdtab, fd)
       THEN [D |-> [D1 EXCEPT !.fdtab = close_fd(@, fd)],
             reply |-> ErrorReply("G_DBUS_ERROR_INVALID_ARGS", "Fd not sealed"),
             allocated |-> FALSE, stolen |-> S.stolen]
       ELSE LET C == checksum_from_fd(D1.fdtab, fd)
            IN IF ~C.ok
               THEN [D |-> [D1 EXCEPT !.fdtab = close_fd(@, fd)],
                     reply |-> ErrorReply("G_DBUS_ERROR_INVALID_ARGS", "Can't read data"),
                     allocated |-> FALSE, stolen |-> S.stolen]
               ELSE LET R == MakeUniqueStore(D1, sender, fd, C.sum, dup_fails)
                    IN [D |-> R.D, reply |-> R.reply, allocated |-> R.allocated,
                        stolen |-> S.stolen]

\* Variant of forget that looks at the type of the parameters after the removal.
forget_late_check(D, sender, signature, blob_id) ==
  [D |-> remove_blob_from_peer(D, sender, blob_id),
   reply |-> IF signature # "(u)"
             THEN ErrorReply("G_DBUS_ERROR_INVALID_ARGS", "Wrong argument types")
             ELSE ReturnValue(<<>>, <<>>)]

\* [D |-> the state at return, reply |-> the reply sent]
forget(D, sender, signature, blob_id) ==
  IF signature # "(u)"
  THEN [D |-> D, reply |-> ErrorReply("G_DBUS_ERROR_INVALID_ARGS", "Wrong argument types")]
  ELSE [D |-> remove_blob_from_peer(D, sender, blob_id), reply |-> ReturnValue(<<>>, <<>>)]

\* Variant of the test that takes the appearance of a unique name for its end.
IsDisappearance_appearance(name, from, to) ==
  /\ Len(name) > 0 /\ name[1] = ":"
  /\ name = to
  /\ from = EmptyName

\* name[0] == ':' && strcmp (name, from) == 0 && strcmp (to, "") == 0
IsDisappearance(name, from, to) ==
  /\ Len(name) > 0 /\ name[1] = ":"
  /\ name = from
  /\ to = EmptyName

\* Variant of name_owner_changed that empties the Peer record of the name,
\* making one if there is none, instead of removing it.
name_owner_changed_emptying(D, name, from, to) ==
  IF IsDisappearance(name, from, to)
  THEN LET D0 == lookup_peer(D, name)
           D1 == peer_free(D0, D0.peers[name])
       IN g_debug([D1 EXCEPT !.peers[name].blobs = EmptyTable], <<"Peer died", name>>)
  ELSE D

\* g_hash_table_remove (peers, name) frees the Peer through peer_free.
name_owner_changed(D, name, from, to) ==
  IF IsDisappearance(name, from, to) /\ name \in DOMAIN D.peers
  THEN LET D1 == peer_free(D, D.peers[name])
       IN g_debug([D1 EXCEPT !.peers = TableDel(@, name)], <<"Peer died", name>>)
  ELSE D

-----------------------------------------------------------------------------
(* The requests and signals the daemon is sent.                            *)

Request(signature, null, files, handle) ==
  [signature |-> signature, null |-> null, files |-> files, handle |-> handle]

\* The MakeUnique requests: [signature, null, files, handle] is a call with
\* parameters of that type carrying the gint32 `handle`, with no descriptor
\* list (null) or with one holding `files`.
MakeUniqueRequests ==
  {Request("(u)", TRUE, <<>>, 0), Request("(h)", TRUE, <<>>, 0), Request("(h)", FALSE, <<>>, 0),
   Request("(u)", FALSE, <<SealedFile(HelloWorld)>>, 0)}
    \cup {Request("(h)", FALSE, <<SealedFile(d)>>, 0) : d \in Contents}
    \cup {Request("(h)", FALSE, <<f>>, 0) : f \in BadFiles}
    \cup {Request("(h)", FALSE, <<Unsealed, SealedFile(HelloWorld)>>, h) : h \in {0, 1, 2}}

\* The MakeUnique requests whose gint32 is negative.
NegativeRequests == {Request("(h)", FALSE, <<Unsealed, SealedFile(HelloWorld)>>, -1)}

\* Whether the request names a sealed, readable file of its list.
IsGoodRequest(req) ==
  /\ req.signature = "(h)" /\ ~req.null
  /\ req.handle \in 0..(Len(req.files) - 1)
  /\ req.files[req.handle + 1] \in {SealedFile(d) : d \in Contents}

\* The Forget requests of a sender, [signature, blob_id]: for a handle it
\* holds, for G_MAXUINT32 (held or not), and with a parameter of another type.
ForgetRequests(sender) ==
  {[signature |-> "(h)", blob_id |-> U32(1)], [signature |-> "(u)", blob_id |-> G_MAXUINT32]}
    \cup {[signature |-> "(u)", blob_id |-> h] :
            h \in (IF sender \in DOMAIN peers THEN DOMAIN peers[sender].blobs ELSE {})}

\* The Forget calls: <<sender, request>>.
ForgetCalls == UNION {{<<sender, req>> : req \in ForgetRequests(sender)} : sender \in Senders}

\* The NameOwnerChanged signals: <<name, old_owner, new_owner>>.  A unique
\* name is owned by itself from connection to disconnection.
NameOwnerChanges ==
  {<<s, s, EmptyName>> : s \in Senders}
    \cup {<<s, EmptyName, s>> : s \in Senders}
    \cup {<<WellKnownName, SenderA, EmptyName>>, <<WellKnownName, EmptyName, SenderA>>,
          <<WellKnownName, SenderA, SenderB>>}

\* What fds[handle] can hold when it is read outside the array.
Garbage == {-1} \cup FdNumbers

D == Daemon(blobs, peers, real_blob_size, apparent_blob_size, fdtab)

RECURSIVE SumLen(_, _)
SumLen(h, S) ==
  IF S = {} THEN 0
  ELSE LET s == CHOOSE x \in S : TRUE IN Len(h[s]) + SumLen(h, S \ {s})

\* The number of handles in the history.
NIssued == SumLen(issued, Senders)

SetDaemon(E) ==
  /\ blobs' = E.blobs
  /\ peers' = E.peers
  /\ real_blob_size' = E.real_blob_size
  /\ apparent_blob_size' = E.apparent_blob_size
  /\ fdtab' = E.fdtab
  /\ log' = E.log

\* The handler on a request whose descriptors have arrived as R (ReceiveFds).
MakeUniqueResult(R, sender, req, garbage, dup_fails) ==
  make_unique([D EXCEPT !.fdtab = R.tab], sender, req.signature,
              [null |-> req.null, fds |-> R.fds], req.handle, garbage, dup_fails)

\* The message's GUnixFDList closes what is still in it when the message is freed.
AfterRequest(M, R) ==
  IF M.stolen THEN M.D
  ELSE [M.D EXCEPT !.fdtab = CloseAll(@, {R.fds[i] : i \in 1..Len(R.fds)})]

\* Whether the descriptor table has room for the descriptors of the request.
CanReceive(req) == Cardinality(DOMAIN fdtab) + Len(req.files) <= MaxFd + 1

\* The MakeUnique call from its arrival to the freeing of the message:
\* [D |-> the daemon afterwards, reply |-> the reply sent, allocated |-> whether
\*  a handle was issued, fds |-> the descriptor numbers the request arrived as]
MakeUniqueOutcome(sender, req, garbage, dup_fails) ==
  LET R == ReceiveFds(fdtab, req.files)
      M == MakeUniqueResult(R, sender, req, garbage, dup_fails)
  IN [D |-> AfterRequest(M, R), reply |-> M.reply, allocated |-> M.allocated, fds |-> R.fds]

MakeUnique(sender, req, garbage, dup_fails) ==
  /\ CanReceive(req)
  /\ LET O == MakeUniqueOutcome(sender, req, garbage, dup_fails)
     IN /\ O.allocated => NIssued < MaxIssued
        /\ SetDaemon(O.D)
        /\ reply' = O.reply
        /\ issued' = IF O.allocated
                     THEN [issued EXCEPT ![sender] = Append(@, O.reply.body[2])]
                     ELSE issued
        /\ UNCHANGED <<issued_before, cvars>>

Forget(sender, signature, blob_id) ==
  /\ LET F == forget(D, sender, signature, blob_id)
     IN /\ SetDaemon(F.D)
        /\ reply' = F.reply
  /\ UNCHANGED <<issued, issued_before, cvars>>

NameOwnerChanged(name, from, to) ==
  /\ SetDaemon(name_owner_changed(D, name, from, to))
  /\ reply' = NoReply
  /\ issued' = IF IsDisappearance(name, from, to) /\ name \in Senders
               THEN [issued EXCEPT ![name] = <<>>] ELSE issued
  /\ issued_before' = IF IsDisappearance(name, from, to) /\ name \in Senders
                      THEN [issued_before EXCEPT ![name] = U32(0)] ELSE issued_before
  /\ UNCHANGED cvars

-----------------------------------------------------------------------------
(* The daemon after main() has created the two tables.                     *)

\* The library of src/unique-bytes.c has not been used: no connection, no
\* descriptor, no mapping, no buffer.
ClientStart(has_bus) ==
  /\ bus = has_bus
  /\ cfds = EmptyTable
  /\ maps = EmptyTable
  /\ records = EmptyTable
  /\ gbytes = <<>>
  /\ outq = <<>>
  /\ inq = <<>>
  /\ aborted = FALSE
  /\ sent = [replied_sync |-> {}, forgot |-> {}]

Init ==
  /\ ClientStart(FALSE)
  /\ blobs = EmptyTable
  /\ peers = EmptyTable
  /\ real_blob_size = 0
  /\ apparent_blob_size = 0
  /\ fdtab = EmptyTable
  /\ log = <<>>
  /\ reply = NoReply
  /\ issued = [s \in Senders |-> <<>>]
  /\ issued_before = [s \in Senders |-> U32(0)]

Next ==
  \/ \E sender \in Senders, req \in MakeUniqueRequests :
       \E dup_fails \in (IF IsGoodRequest(req) THEN BOOLEAN ELSE {FALSE}) :
         MakeUnique(sender, req, -1, dup_fails)
  \/ \E call \in ForgetCalls :
       Forget(call[1], call[2].signature, call[2].blob_id)
  \/ \E sig \in NameOwnerChanges :
       NameOwnerChanged(sig[1], sig[2], sig[3])

Spec == Init /\ [][Next]_vars

-----------------------------------------------------------------------------
(* The daemon late in a long session.  SenderA submitted HelloWorld first  *)
(* (handle 1), then submitted and forgot blobs until its 32-bit counter    *)
(* came to its last value or wrapped to 0 (the blob of the last such pair  *)
(* was the empty one); it still holds handle 1.  Either state is reached   *)
(* from Init by that many MakeUnique and Forget steps.                     *)

InitAged ==
  \E next \in {G_MAXUINT32, U32(0)} :
    LET last == IF next = U32(0) THEN G_MAXUINT32 ELSE <<Limb - 1, Limb - 2>> IN
    /\ ClientStart(FALSE)
    /\ blobs = TablePut(EmptyTable, Sha256(HelloWorld),
                        [sha256 |-> Sha256(HelloWorld), len |-> Len(HelloWorld),
                         fd |-> 0, ref_count |-> 1])
    /\ peers = TablePut(EmptyTable, SenderA,
                        [name |-> SenderA, next_blob_id |-> next,
                         blobs |-> TablePut(EmptyTable, U32(1), Sha256(HelloWorld))])
    /\ real_blob_size = Len(HelloWorld)
    /\ apparent_blob_size = Len(HelloWorld)
    /\ fdtab = TablePut(EmptyTable, 0, SealedFile(HelloWorld))
    /\ log = <<<<"Removing blob for peer", last, SenderA>>,
               <<"Blob destroyed", Sha256(<<>>)>>>>
    /\ reply = ReturnValue(<<>>, <<>>)
    /\ issued = [s \in Senders |-> <<>>]
    /\ issued_before = [s \in Senders |-> IF s = SenderA THEN last ELSE U32(0)]

SpecAged == InitAged /\ [][Next]_vars

-----------------------------------------------------------------------------
(* The same daemon when clients also send negative descriptor indices.     *)

NextNegative ==
  \/ Next
  \/ \E sender \in Senders, req \in NegativeRequests, garbage \in Garbage :
       MakeUnique(sender, req, garbage, FALSE)

SpecNegative == InitAged /\ [][NextNegative]_vars

-----------------------------------------------------------------------------
(* The client library (src/unique-bytes.c), used by the process whose      *)
(* unique name is SenderA.  K is the state of that process:                *)
(* [cfds, maps, records, outq, forgot].                                    *)

NULL == 0

MAP_FAILED == -1

Client(t, m, r, q, f) == [cfds |-> t, maps |-> m, records |-> r, outq |-> q, forgot |-> f]

K == Client(cfds, maps, records, outq, sent.forgot)

\* The lowest number from `first` on that is not a key of the table: the
\* descriptor number, address or pointer the next allocation returns.
LowestUnused(t, first) ==
  CHOOSE n \in first..(first + Cardinality(DOMAIN t)) :
    n \notin DOMAIN t /\ \A m \in first..(n - 1) : m \in DOMAIN t

\* An open descriptor of the client: the open file it refers to, and whether
\* it came with a reply of the daemon or was made by the client itself.
Fd(file, received) == [file |-> file, received |-> received]

\* The descriptors of a reply's GUnixFDList arrive open in the client.
RECURSIVE ClientReceiveFds(_, _)
ClientReceiveFds(t, files) ==
  IF files = <<>> THEN [tab |-> t, fds |-> <<>>]
  ELSE LET n == LowestUnused(t, 0)
           rest == ClientReceiveFds(TablePut(t, n, Fd(Head(files), TRUE)), Tail(files))
       IN [tab |-> rest.tab, fds |-> <<n>> \o rest.fds]

\* The client's copy of steal_one_fd_from_list.
client_steal_one_fd_from_list(t, fd_list, handle, garbage) ==
  steal_one_fd_from_list(t, fd_list, handle, garbage)

\* What can go wrong in create_sealed_memfd_for_data.
CreateFailures == {"memfd_create", "ftruncate", "write", "fcntl"}

\* [memfd |-> the descriptor returned or -1, tab |-> the descriptor table]
create_sealed_memfd_for_data(t, data, fail) ==
  IF fail = "none"
  THEN LET memfd == LowestUnused(t, 0)
       IN [memfd |-> memfd, tab |-> TablePut(t, memfd, Fd(SealedFile(data), FALSE))]
  ELSE [memfd |-> -1, tab |-> t]

\* mmap (addr, len, PROT_READ, MAP_PRIVATE [| MAP_FIXED], fd, 0), fd being
\* the open descriptor `fd`: [ret |-> the address returned, maps |-> the
\* mappings].  A length of 0 and an address that is not page-aligned are
\* EINVAL.
mmap(m, addr, len, fixed, fd, fails) ==
  IF fails \/ len = 0 \/ (fixed /\ addr < 1)
  THEN [ret |-> MAP_FAILED, maps |-> m]
  ELSE LET a == IF fixed THEN addr ELSE LowestUnused(m, 1)
       IN [ret |-> a,
           maps |-> TablePut(m, a, [fd |-> fd, len |-> len, prot |-> "PROT_READ"])]

\* munmap (addr, len): EINVAL, and nothing unmapped, for what is no mapping.
munmap(m, addr, len) == IF addr \in DOMAIN m /\ len > 0 THEN TableDel(m, addr) ELSE m

mapped_data_new(data, len) == [ref_count |-> 1, data |-> data, len |-> len, id |-> U32(0)]

mapped_data_ref(k, d) == [k EXCEPT !.records[d].ref_count = @ + 1]

\* A message of the client on its way to the daemon.
Message(method, file, id, user_data) ==
  [method |-> method, file |-> file, id |-> id, user_data |-> user_data]

NoFile == File(<<>>, {}, FALSE, FALSE)

\* g_dbus_connection_call without a callback: the reply is not waited for.
call_forget(k, has_bus, id) ==
  IF has_bus
  THEN [k EXCEPT !.outq = Append(@, Message("Forget", NoFile, id, NULL)),
                 !.forgot = @ \cup {id}]
  ELSE k

\* Variant of mapped_data_unref that sends Forget whatever the id is.
mapped_data_unref_any_id(k, has_bus, d) ==
  LET r == k.records[d]
  IN IF r.ref_count - 1 = 0
     THEN LET k1 == [k EXCEPT !.maps = munmap(@, r.data, r.len)]
              k2 == call_forget(k1, has_bus, r.id)
          IN [k2 EXCEPT !.records = TableDel(@, d)]
     ELSE [k EXCEPT !.records[d].ref_count = @ - 1]

mapped_data_unref(k, has_bus, d) ==
  LET r == k.records[d]
  IN IF r.ref_count - 1 = 0
     THEN LET k1 == [k EXCEPT !.maps = munmap(@, r.data, r.len)]
              k2 == IF r.id # U32(0) THEN call_forget(k1, has_bus, r.id) ELSE k1
          IN [k2 EXCEPT !.records = TableDel(@, d)]
     ELSE [k EXCEPT !.records[d].ref_count = @ - 1]

\* The GBytes handed to the caller.  kind "copy": g_bytes_new, the bytes are
\* in `copy`; kind "mapped": g_bytes_new_with_free_func over data and size,
\* with mapped_data_unref (user_data) as free function.  `live`: the caller
\* still holds it.  History: `bytes` and `how` are what the caller submitted
\* and through which entry point, `failed` whether a step of the submission
\* failed, `early` whether the caller dropped it while the call made for it
\* still held a reference to its record.
GBytesCopy(B, how, failed) ==
  [kind |-> "copy", data |-> NULL, size |-> Len(B), copy |-> B, user_data |-> NULL,
   live |-> TRUE, bytes |-> B, how |-> how, failed |-> failed, early |-> FALSE]

GBytesMapped(data, len, d, B, how, failed) ==
  [kind |-> "mapped", data |-> data, size |-> len, copy |-> <<>>, user_data |-> d,
   live |-> TRUE, bytes |-> B, how |-> how, failed |-> failed, early |-> FALSE]

\* What the caller reads through g_bytes_get_data of buffer b, with the
\* mappings m: [ok |-> whether the memory can be read, bytes |-> what is read].
ReadBytes(m, b) ==
  IF b.kind = "copy" THEN [ok |-> TRUE, bytes |-> b.copy]
  ELSE IF b.size = 0 THEN [ok |-> TRUE, bytes |-> <<>>]
  ELSE IF b.data \in DOMAIN m /\ m[b.data].len >= b.size
               /\ Len(m[b.data].fd.file.data) >= b.size
  THEN [ok |-> TRUE, bytes |-> SubSeq(m[b.data].fd.file.data, 1, b.size)]
  ELSE [ok |-> FALSE, bytes |-> <<>>]

\* The response a g_dbus call hands to the caller: NULL for an error reply.
Response(r) == IF r.type = "return" THEN r ELSE NoReply

\* call_make_unique from the arrival of a response (lines 164-190):
\* [tab |-> the descriptor table, memfd |-> *memfd, id |-> *id_out].
call_make_unique_response(t, memfd, response) ==
  LET R == ClientReceiveFds(t, [i \in 1..Len(response.fd_list) |-> response.fd_list[i].file])
      fd_list == [null |-> response.fd_list = <<>>, fds |-> R.fds]
      ah == response.body[1]
      S == IF ah # <<>>
           THEN client_steal_one_fd_from_list(R.tab, fd_list, ah[1], -1)
           ELSE [fd |-> -1, tab |-> R.tab, stolen |-> FALSE]
      t1 == IF S.fd # -1 THEN close(S.tab, memfd) ELSE S.tab
      \* g_clear_object (&response_fd_list) closes what was not stolen
      t2 == IF S.stolen THEN t1 ELSE CloseAll(t1, {R.fds[i] : i \in 1..Len(R.fds)})
  IN [tab |-> t2, memfd |-> IF S.fd # -1 THEN S.fd ELSE memfd, id |-> response.body[2]]

\* call_make_unique on the descriptor memfd, given what the bus call came
\* to (`response`, NoReply for NULL): [result |-> the value returned,
\* tab, memfd, id, called |-> whether the call was sent].
\* The descriptor appended to fd_list is a duplicate owned by the list; the
\* function returns before g_object_unref (fd_list), so it stays open.
call_make_unique(t, memfd, has_bus, append_fails, response) ==
  IF ~has_bus
  THEN [result |-> FALSE, tab |-> t, memfd |-> memfd, id |-> U32(0), called |-> FALSE]
  ELSE IF append_fails
  THEN [result |-> FALSE, tab |-> t, memfd |-> memfd, id |-> U32(0), called |-> FALSE]
  ELSE LET t1 == TablePut(t, LowestUnused(t, 0), t[memfd])
       IN IF response.type = "return"
          THEN LET P == call_make_unique_response(t1, memfd, response)
               IN [result |-> FALSE, tab |-> P.tab, memfd |-> P.memfd, id |-> P.id,
                   called |-> TRUE]
          ELSE [result |-> FALSE, tab |-> t1, memfd |-> memfd, id |-> U32(0),
                called |-> TRUE]

\* Variant of call_make_unique_async that hands the record to the call
\* without taking a reference for it.
call_make_unique_async_borrowing(k, memfd, d, has_bus, append_fails) ==
  IF ~has_bus \/ append_fails THEN k
  ELSE [k EXCEPT !.outq = Append(@, Message("MakeUnique", k.cfds[memfd].file, U32(0), d))]

\* call_make_unique_async: the call goes out with a reference to the record
\* as user data; the list's duplicate of memfd is closed again by
\* g_object_unref (fd_list), so the descriptor table is as before.
call_make_unique_async(k, memfd, d, has_bus, append_fails) ==
  IF ~has_bus \/ append_fails THEN k
  ELSE [mapped_data_ref(k, d)
          EXCEPT !.outq = Append(@, Message("MakeUnique", k.cfds[memfd].file, U32(0), d))]

\* Variant of make_unique_cb that maps the canonical descriptor wherever the
\* kernel puts it and takes that for the record's address.
make_unique_cb_unfixed(k, has_bus, d, res, remap_fails) ==
  LET response == Response(res)
      r == k.records[d]
  IN IF response.type # "return"
     THEN [k |-> mapped_data_unref(k, has_bus, d), aborted |-> FALSE]
     ELSE
       LET R == ClientReceiveFds(k.cfds,
                  [i \in 1..Len(response.fd_list) |-> response.fd_list[i].file])
           fd_list == [null |-> response.fd_list = <<>>, fds |-> R.fds]
           ah == response.body[1]
           S == IF ah # <<>>
                THEN client_steal_one_fd_from_list(R.tab, fd_list, ah[1], -1)
                ELSE [fd |-> -1, tab |-> R.tab, stolen |-> FALSE]
           M == IF S.fd # -1
                THEN mmap(k.maps, r.data, r.len, FALSE, S.tab[S.fd], remap_fails)
                ELSE [ret |-> r.data, maps |-> k.maps]
           t1 == IF S.fd # -1 THEN close(S.tab, S.fd) ELSE S.tab
           t2 == IF S.stolen THEN t1 ELSE CloseAll(t1, {R.fds[i] : i \in 1..Len(R.fds)})
           k1 == [k EXCEPT !.cfds = t2, !.maps = M.maps,
                           !.records[d].id = response.body[2],
                           !.records[d].data = M.ret]
       IN [k |-> mapped_data_unref(k1, has_bus, d), aborted |-> FALSE]

\* make_unique_cb on the result `res` (a reply) of the call made for record d:
\* [k |-> the client afterwards, aborted |-> whether g_assert failed].
make_unique_cb(k, has_bus, d, res, remap_fails) ==
  LET response == Response(res)
      r == k.records[d]
  IN IF response.type # "return"
     THEN [k |-> mapped_data_unref(k, has_bus, d), aborted |-> FALSE]
     ELSE
       LET R == ClientReceiveFds(k.cfds,
                  [i \in 1..Len(response.fd_list) |-> response.fd_list[i].file])
           fd_list == [null |-> response.fd_list = <<>>, fds |-> R.fds]
           ah == response.body[1]
           S == IF ah # <<>>
                THEN client_steal_one_fd_from_list(R.tab, fd_list, ah[1], -1)
                ELSE [fd |-> -1, tab |-> R.tab, stolen |-> FALSE]
           \* Switch out the mapping to the new version
           M == IF S.fd # -1
                THEN mmap(k.maps, r.data, r.len, TRUE, S.tab[S.fd], remap_fails)
                ELSE [ret |-> r.data, maps |-> k.maps]
           t1 == IF S.fd # -1 THEN close(S.tab, S.fd) ELSE S.tab
           t2 == IF S.stolen THEN t1 ELSE CloseAll(t1, {R.fds[i] : i \in 1..Len(R.fds)})
           k1 == [k EXCEPT !.cfds = t2, !.maps = M.maps,
                           !.records[d].id = response.body[2]]
       IN IF M.ret # r.data
          THEN [k |-> [k EXCEPT !.cfds = S.tab], aborted |-> TRUE]
          ELSE [k |-> mapped_data_unref(k1, has_bus, d), aborted |-> FALSE]

-----------------------------------------------------------------------------
(* The steps of the client process and of the daemon serving it.           *)

\* Buffers the caller asks for in a behaviour.
MaxBufs == 1

SetClient(k) ==
  /\ cfds' = k.cfds
  /\ maps' = k.maps
  /\ records' = k.records
  /\ outq' = k.outq

\* The MakeUnique calls of the client the daemon has not handled yet.
InFlight == Cardinality({i \in 1..Len(outq) : outq[i].method = "MakeUnique"})

\* The daemon handles a MakeUnique of `sender` with outcome O.
DaemonServes(sender, O) ==
  /\ SetDaemon(O.D)
  /\ reply' = O.reply
  /\ issued' = IF O.allocated
               THEN [issued EXCEPT ![sender] = Append(@, O.reply.body[2])]
               ELSE issued
  /\ UNCHANGED issued_before

\* How a call of the library can go: what fails in making the sealed file
\* ("none": nothing), whether appending to the descriptor list fails,
\* whether the synchronous call times out, whether the daemon fails to
\* duplicate the blob's descriptor, whether mmap fails.
Run(fail, append_fails, timeout, dup_fails, mmap_fails) ==
  [fail |-> fail, append_fails |-> append_fails, timeout |-> timeout,
   dup_fails |-> dup_fails, mmap_fails |-> mmap_fails]

Runs ==
  {Run(f, FALSE, FALSE, FALSE, FALSE) : f \in CreateFailures \cup {"none"}}
    \cup {Run("none", TRUE, FALSE, FALSE, FALSE), Run("none", FALSE, TRUE, FALSE, FALSE),
          Run("none", FALSE, FALSE, TRUE, FALSE), Run("none", FALSE, FALSE, FALSE, TRUE)}

g_bytes_new_unique_sync(B, run) ==
  /\ ~aborted /\ Len(gbytes) < MaxBufs
  /\ \E C \in {create_sealed_memfd_for_data(cfds, B, run.fail)} :
       IF C.memfd < 0
       THEN /\ gbytes' = Append(gbytes, GBytesCopy(B, "sync", TRUE))
            /\ UNCHANGED <<dvars, bus, cfds, maps, records, outq, inq, aborted, sent>>
       ELSE
         \E req \in {Request("(h)", FALSE, <<C.tab[C.memfd].file>>, 0)},
            served \in {bus /\ ~run.append_fails /\ ~run.timeout} :
           \E O \in {MakeUniqueOutcome(SenderA, req, -1, run.dup_fails)} :
             \E response \in {IF served THEN Response(O.reply) ELSE NoReply} :
               \E R \in {call_make_unique(C.tab, C.memfd, bus, run.append_fails, response)} :
                 \E M \in {IF R.result
                            THEN mmap(maps, NULL, Len(B), FALSE, R.tab[R.memfd],
                                      run.mmap_fails)
                            ELSE [ret |-> NULL, maps |-> maps]},
                    d \in {LowestUnused(records, 1)} :
                   /\ served => /\ outq = <<>>
                                /\ CanReceive(req)
                                /\ O.allocated => NIssued + InFlight < MaxIssued
                   /\ (R.called /\ ~served) => NIssued + InFlight < MaxIssued
                   /\ IF served THEN DaemonServes(SenderA, O) ELSE UNCHANGED dvars
                   /\ outq' = IF R.called /\ ~served
                              THEN Append(outq, Message("MakeUnique", C.tab[C.memfd].file,
                                                        U32(0), NULL))
                              ELSE outq
                   /\ cfds' = close(R.tab, R.memfd)
                   /\ maps' = M.maps
                   /\ IF M.ret # NULL
                      THEN /\ records' = TablePut(records, d,
                                            [mapped_data_new(M.ret, Len(B)) EXCEPT !.id = R.id])
                           /\ gbytes' = Append(gbytes,
                                               GBytesMapped(M.ret, Len(B), d, B, "sync",
                                                            M.ret = MAP_FAILED))
                      ELSE /\ records' = records
                           /\ gbytes' = Append(gbytes,
                                               GBytesCopy(B, "sync", response.type # "return"))
                   /\ sent' = IF response.type = "return"
                              THEN [sent EXCEPT !.replied_sync = @ \cup {R.id}]
                              ELSE sent
                   /\ UNCHANGED <<bus, inq, aborted>>

g_bytes_new_unique_async(B, run) ==
  /\ ~aborted /\ Len(gbytes) < MaxBufs
  /\ UNCHANGED <<dvars, bus, inq, aborted, sent>>
  /\ LET C == create_sealed_memfd_for_data(cfds, B, run.fail)
     IN IF C.memfd < 0
        THEN /\ gbytes' = Append(gbytes, GBytesCopy(B, "async", TRUE))
             /\ UNCHANGED <<cfds, maps, records, outq>>
        ELSE
          LET M == mmap(maps, NULL, Len(B), FALSE, C.tab[C.memfd], run.mmap_fails)
              d == LowestUnused(records, 1)
              k0 == Client(C.tab, M.maps,
                           TablePut(records, d, mapped_data_new(M.ret, Len(B))),
                           outq, sent.forgot)
              k1 == call_make_unique_async(k0, C.memfd, d, bus, run.append_fails)
          IN IF M.ret # NULL
             THEN /\ (bus /\ ~run.append_fails) => NIssued + InFlight < MaxIssued
                  /\ SetClient([k1 EXCEPT !.cfds = close(@, C.memfd)])
                  /\ gbytes' = Append(gbytes,
                                      GBytesMapped(M.ret, Len(B), d, B, "async",
                                                   M.ret = MAP_FAILED \/ ~bus
                                                     \/ run.append_fails))
             ELSE /\ cfds' = close(C.tab, C.memfd)
                  /\ gbytes' = Append(gbytes, GBytesCopy(B, "async", TRUE))
                  /\ UNCHANGED <<maps, records, outq>>

\* The caller drops its reference to buffer i, the last one.
g_bytes_unref(i) ==
  /\ ~aborted /\ gbytes[i].live
  /\ gbytes' = [gbytes EXCEPT ![i].live = FALSE,
                              ![i].early = gbytes[i].kind = "mapped"
                                             /\ records[gbytes[i].user_data].ref_count > 1]
  /\ IF gbytes[i].kind = "mapped"
     THEN LET k == mapped_data_unref(K, bus, gbytes[i].user_data)
          IN SetClient(k) /\ sent' = [sent EXCEPT !.forgot = k.forgot]
     ELSE UNCHANGED <<cfds, maps, records, outq, sent>>
  /\ UNCHANGED <<dvars, bus, inq, aborted>>

\* The client's main loop dispatches the oldest reply to make_unique_cb.
MakeUniqueCb(remap_fails) ==
  /\ ~aborted /\ inq # <<>>
  /\ LET R == make_unique_cb(K, bus, Head(inq).user_data, Head(inq).reply, remap_fails)
     IN /\ SetClient(R.k)
        /\ sent' = [sent EXCEPT !.forgot = R.k.forgot]
        /\ aborted' = R.aborted
  /\ inq' = Tail(inq)
  /\ UNCHANGED <<dvars, bus, gbytes>>

\* The daemon handles the oldest message of the client.
DaemonHandles(dup_fails) ==
  /\ outq # <<>>
  /\ outq' = Tail(outq)
  /\ LET msg == Head(outq)
     IN IF msg.method = "MakeUnique"
        THEN LET req == Request("(h)", FALSE, <<msg.file>>, 0)
                 O == MakeUniqueOutcome(SenderA, req, -1, dup_fails)
             IN /\ CanReceive(req)
                /\ DaemonServes(SenderA, O)
                /\ inq' = IF msg.user_data # NULL
                          THEN Append(inq, [user_data |-> msg.user_data, reply |-> O.reply])
                          ELSE inq
        ELSE LET F == forget(D, SenderA, "(u)", msg.id)
             IN /\ ~dup_fails
                /\ SetDaemon(F.D)
                /\ reply' = F.reply
                /\ UNCHANGED <<issued, issued_before, inq>>
  /\ UNCHANGED <<bus, cfds, maps, records, gbytes, aborted, sent>>

\* Another peer, speaking the protocol itself, submits and forgets.
OtherPeer ==
  \/ \E B \in Contents :
       /\ NIssued + InFlight < MaxIssued
       /\ MakeUnique(SenderB, Request("(h)", FALSE, <<SealedFile(B)>>, 0), -1, FALSE)
  \/ \E h \in (IF SenderB \in DOMAIN peers THEN DOMAIN peers[SenderB].blobs ELSE {}) :
       Forget(SenderB, "(u)", h)

InitClient ==
  \E has_bus \in BOOLEAN :
    /\ ClientStart(has_bus)
    /\ blobs = EmptyTable
    /\ peers = EmptyTable
    /\ real_blob_size = 0
    /\ apparent_blob_size = 0
    /\ fdtab = EmptyTable
    /\ log = <<>>
    /\ reply = NoReply
    /\ issued = [s \in Senders |-> <<>>]
    /\ issued_before = [s \in Senders |-> U32(0)]

NextClient ==
  \/ \E B \in Contents, run \in Runs : g_bytes_new_unique_sync(B, run)
  \/ \E B \in Contents, run \in Runs : g_bytes_new_unique_async(B, run)
  \/ \E i \in 1..Len(gbytes) : g_bytes_unref(i)
  \/ \E remap_fails \in BOOLEAN : MakeUniqueCb(remap_fails)
  \/ \E dup_fails \in BOOLEAN : DaemonHandles(dup_fails)
  \/ OtherPeer

SpecClient == InitClient /\ [][NextClient]_vars

-----------------------------------------------------------------------------
(* The client and the daemon late in a long session: the client has        *)
(* submitted buffers and dropped them again, one at a time, until the      *)
(* counter of its Peer record came to its last value or wrapped to 0; it   *)
(* holds no buffer now (the last one was a 14-byte one).                   *)

InitClientAged ==
  \E next \in {G_MAXUINT32, U32(0)} :
    LET last == IF next = U32(0) THEN G_MAXUINT32 ELSE <<Limb - 1, Limb - 2>> IN
    /\ ClientStart(TRUE)
    /\ blobs = EmptyTable
    /\ peers = TablePut(EmptyTable, SenderA,
                        [name |-> SenderA, next_blob_id |-> next, blobs |-> EmptyTable])
    /\ real_blob_size = 0
    /\ apparent_blob_size = 0
    /\ fdtab = EmptyTable
    /\ log = <<<<"Removing blob for peer", last, SenderA>>,
               <<"Blob destroyed", Sha256(HelloWorld)>>>>
    /\ reply = ReturnValue(<<>>, <<>>)
    /\ issued = [s \in Senders |-> <<>>]
    /\ issued_before = [s \in Senders |-> IF s = SenderA THEN last ELSE U32(0)]

SpecClientAged == InitClientAged /\ [][NextClient]_vars

-----------------------------------------------------------------------------
(* Vocabulary of the properties.                                           *)

\* The (peer, handle) entries of all the handle maps of a peer table.
EntriesIn(P) == UNION {{<<p, h>> : h \in DOMAIN P[p].blobs} : p \in DOMAIN P}

\* The entries of a peer table that point at blob d.
EntriesOfIn(P, d) == {e \in EntriesIn(P) : P[e[1]].blobs[e[2]] = d}

Entries == EntriesIn(peers)

EntriesOf(d) == EntriesOfIn(peers, d)

\* The entries of peer s that point at blob d.
EntriesOfPeer(s, d) == {e \in EntriesOf(d) : e[1] = s}

\* The lines of the log that start with `what`.
LogLines(what) == {i \in 1..Len(log) : log[i][1] = what}

LastLogLine == IF Len(log) = 0 THEN <<"">> ELSE log[Len(log)]

Range(seq) == {seq[i] : i \in 1..Len(seq)}

\* The requests that submit a sealed, readable file, and the digest of its bytes.
GoodRequests == {req \in MakeUniqueRequests : IsGoodRequest(req)}

SubmittedFile(req) == req.files[req.handle + 1]

SubmittedDigest(req) == Sha256(SubmittedFile(req).data)

\* The state after the handler for the disappearance of unique name s.
AfterDeath(s) == name_owner_changed(D, s, s, EmptyName)

-----------------------------------------------------------------------------
\* C1: in every state between handler invocations, the ref_count of every blob
\* in the blob table equals the number of (peer, handle) entries, over all
\* peers, that point at that blob.
C1_RefCountEqualsEntries ==
  \A d \in DOMAIN blobs : blobs[d].ref_count = Cardinality(EntriesOf(d))

\* Two peers hold one blob, whose count is 2.
C1_Witness ==
  \E d \in DOMAIN blobs :
    /\ blobs[d].ref_count = 2
    /\ \A s \in Senders : EntriesOfPeer(s, d) # {}

-----------------------------------------------------------------------------
-----------------------------------------------------------------------------
\* C3: a NameOwnerChanged that reports the disappearance of the unique name s
\* leaves no Peer record for s, hence no entry of s in any table; every other
\* peer's record is as it was; each blob has lost as many references as s had
\* entries for it, and a blob whose count reached zero that way is no longer
\* in the blob table.
C3_PeerDeathReleasesReferences ==
  \A s \in Senders :
    LET E == AfterDeath(s)
    IN /\ s \notin DOMAIN E.peers
       /\ \A e \in EntriesIn(E.peers) : e[1] # s
       /\ \A p \in DOMAIN peers \ {s} : p \in DOMAIN E.peers /\ E.peers[p] = peers[p]
       /\ \A d \in DOMAIN blobs :
            LET held == Cardinality(EntriesOfPeer(s, d))
            IN IF blobs[d].ref_count = held
               THEN d \notin DOMAIN E.blobs
               ELSE /\ d \in DOMAIN E.blobs
                    /\ E.blobs[d].ref_count = blobs[d].ref_count - held

\* SenderA has died holding the last reference to one blob and one of the
\* references to another, which SenderB still holds.
C3_Witness ==
  /\ LastLogLine = <<"Peer died", SenderA>>
  /\ LogLines("Blob destroyed") # {}
  /\ SenderA \notin DOMAIN peers
  /\ \E d \in DOMAIN blobs : blobs[d].ref_count = 1 /\ EntriesOfPeer(SenderB, d) # {}

-----------------------------------------------------------------------------
\* C4: no handle is issued twice to a peer within the life of its Peer record:
\* the handles issued in this behaviour are pairwise different, and none of
\* them is one of the handles 1..issued_before issued before it.
C4_NoHandleIssuedTwice ==
  \A s \in Senders :
    \A i \in 1..Len(issued[s]) :
      /\ \A j \in 1..(i - 1) : issued[s][j] # issued[s][i]
      /\ ~(U32Le(U32(1), issued[s][i]) /\ U32Le(issued[s][i], issued_before[s]))

-----------------------------------------------------------------------------
\* C5: a MakeUnique that succeeds, followed by a Forget of the handle it
\* returned by the same peer, leaves the blob table (the blobs and their
\* counts) and both size counters as they were before the MakeUnique; the
\* blob of the submitted bytes is then in the table only if an entry points
\* at it.
C5_MakeUniqueThenForget ==
  \A s \in Senders, req \in GoodRequests :
    LET O == MakeUniqueOutcome(s, req, -1, FALSE)
        F == forget(O.D, s, "(u)", O.reply.body[2])
    IN (CanReceive(req) /\ O.reply.type = "return")
       => /\ F.D.blobs = blobs
          /\ F.D.real_blob_size = real_blob_size
          /\ F.D.apparent_blob_size = apparent_blob_size
          /\ SubmittedDigest(req) \in DOMAIN F.D.blobs
               => EntriesOfIn(F.D.peers, SubmittedDigest(req)) # {}

-----------------------------------------------------------------------------
RECURSIVE SumBlobLen(_, _)
SumBlobLen(B, S) ==
  IF S = {} THEN 0
  ELSE LET d == CHOOSE x \in S : TRUE IN B[d].len + SumBlobLen(B, S \ {d})

\* C6: in every state between handler invocations, real_blob_size is the sum
\* of len over the blobs in the blob table.
C6_RealSizeIsSumOfBlobs == real_blob_size = SumBlobLen(blobs, DOMAIN blobs)

\* Two blobs have been created, one of them "Hello, World!", the other empty.
C6_Witness ==
  /\ LogLines("Created new blob") # {}
  /\ Cardinality(DOMAIN blobs) = 2
  /\ real_blob_size = Len(HelloWorld)

-----------------------------------------------------------------------------
\* The sum, over the entries in S, of the length of the blob the entry points at.
RECURSIVE SumEntryLen(_, _, _)
SumEntryLen(B, P, S) ==
  IF S = {} THEN 0
  ELSE LET e == CHOOSE x \in S : TRUE
           d == P[e[1]].blobs[e[2]]
       IN (IF d \in DOMAIN B THEN B[d].len ELSE 0) + SumEntryLen(B, P, S \ {e})

\* C7: in every state between handler invocations, apparent_blob_size is the
\* sum, over the (peer, handle) entries of all peers, of the length of the
\* blob the entry points at.
C7_ApparentSizeIsSumOfEntries == apparent_blob_size = SumEntryLen(blobs, peers, Entries)

\* SenderA has died holding entries for two blobs while SenderB holds
\* "Hello, World!": the counter is down to SenderB's entry.
C7_Witness ==
  /\ LastLogLine = <<"Peer died", SenderA>>
  /\ LogLines("Blob destroyed") # {}
  /\ EntriesOfPeer(SenderB, Sha256(HelloWorld)) # {}
  /\ apparent_blob_size = Len(HelloWorld)

-----------------------------------------------------------------------------
\* C8: in every state between handler invocations,
\* apparent_blob_size >= real_blob_size.
C8_ApparentAtLeastReal == apparent_blob_size >= real_blob_size

\* One peer holds "Hello, World!" twice: 28 apparent bytes for 14 real ones.
C8_Witness ==
  /\ Cardinality(EntriesOfPeer(SenderA, Sha256(HelloWorld))) = 2
  /\ apparent_blob_size = 2 * Len(HelloWorld)
  /\ real_blob_size = Len(HelloWorld)

-----------------------------------------------------------------------------
\* C9: the reply of a MakeUnique that succeeds carries, when the digest of the
\* submitted bytes is in the blob table (hit), one descriptor, a duplicate of
\* the descriptor of the stored blob, named by index 0 in the array, and the
\* stored blob keeps its descriptor; when the digest is not there (miss) it
\* carries no descriptor and an empty array, and the descriptor the request
\* arrived as is the descriptor of the new blob and is still open.
C9_ReplyDescriptors ==
  \A s \in Senders, req \in GoodRequests, dup_fails \in BOOLEAN :
    LET d == SubmittedDigest(req)
        O == MakeUniqueOutcome(s, req, -1, dup_fails)
        fd == O.fds[req.handle + 1]
    IN (CanReceive(req) /\ O.reply.type = "return")
       => IF d \in DOMAIN blobs
          THEN /\ O.reply.body[1] = <<0>>
               /\ Len(O.reply.fd_list) = 1
               /\ O.reply.fd_list[1].dup_of = blobs[d].fd
               /\ O.D.blobs[d].fd = blobs[d].fd
          ELSE /\ O.reply.body[1] = <<>>
               /\ O.reply.fd_list = <<>>
               /\ O.D.blobs[d].fd = fd
               /\ fd \in DOMAIN O.D.fdtab
               /\ O.D.fdtab[fd] = SubmittedFile(req)

\* A hit has been answered with the descriptor of the stored "Hello, World!".
C9_Witness ==
  /\ reply.type = "return"
  /\ Len(reply.fd_list) = 1
  /\ Sha256(HelloWorld) \in DOMAIN blobs
  /\ reply.fd_list[1].dup_of = blobs[Sha256(HelloWorld)].fd
  /\ reply.fd_list[1].file = SealedFile(HelloWorld)

-----------------------------------------------------------------------------
\* The requests whose descriptor lacks a seal or cannot have seals at all.
UnsealedRequests ==
  {req \in MakeUniqueRequests :
     /\ req.signature = "(h)" /\ ~req.null
     /\ req.handle \in 0..(Len(req.files) - 1)
     /\ ~SubmittedFile(req).memfd \/ SubmittedFile(req).seals # ALL_SEALS}

\* C10: a MakeUnique whose descriptor lacks one or more of the four seals, or
\* whose seals cannot be queried, is answered with the invalid-args error
\* "Fd not sealed" and leaves the blob table, the peer table and both size
\* counters as they were.
C10_UnsealedIsRejected ==
  \A s \in Senders, req \in UnsealedRequests :
    LET O == MakeUniqueOutcome(s, req, -1, FALSE)
    IN CanReceive(req)
       => /\ O.reply = ErrorReply("G_DBUS_ERROR_INVALID_ARGS", "Fd not sealed")
          /\ O.D.blobs = blobs
          /\ O.D.peers = peers
          /\ O.D.real_blob_size = real_blob_size
          /\ O.D.apparent_blob_size = apparent_blob_size

\* An unsealed descriptor has been rejected by a daemon that holds blobs.
C10_Witness ==
  /\ reply = ErrorReply("G_DBUS_ERROR_INVALID_ARGS", "Fd not sealed")
  /\ log = <<>>
  /\ DOMAIN blobs # {}
  /\ Entries # {}

-----------------------------------------------------------------------------
\* The MakeUnique requests whose parameters are not of type (h).
WrongTypeRequests == {req \in MakeUniqueRequests : req.signature # "(h)"}

\* C11: a MakeUnique whose parameters are not of type (h) and a Forget whose
\* parameters are not of type (u) are answered with the invalid-args error
\* "Wrong argument types", and the blob table, the peer table with its handle
\* maps, both size counters and the descriptor table are as they were; no
\* line about a blob or a peer is logged.
C11_WrongTypeIsRejected ==
  /\ \A s \in Senders, req \in WrongTypeRequests :
       LET O == MakeUniqueOutcome(s, req, -1, FALSE)
       IN CanReceive(req)
          => /\ O.reply = ErrorReply("G_DBUS_ERROR_INVALID_ARGS", "Wrong argument types")
             /\ O.D = D
  /\ \A s \in Senders, blob_id \in {U32(0), U32(1), G_MAXUINT32} :
       LET F == forget(D, s, "(h)", blob_id)
       IN /\ F.reply = ErrorReply("G_DBUS_ERROR_INVALID_ARGS", "Wrong argument types")
          /\ F.D = D

\* A call of the wrong type has been rejected by a daemon in which both
\* peers hold blobs.
C11_Witness ==
  /\ reply = ErrorReply("G_DBUS_ERROR_INVALID_ARGS", "Wrong argument types")
  /\ log = <<>>
  /\ \A s \in Senders : s \in DOMAIN peers /\ DOMAIN peers[s].blobs # {}

-----------------------------------------------------------------------------
\* The requests of type (h) that carry no descriptor at the index they name:
\* no list, an index at or beyond the length of the list, a negative index.
NoDescriptorRequests ==
  {req \in MakeUniqueRequests \cup NegativeRequests :
     /\ req.signature = "(h)"
     /\ req.null \/ req.handle \notin 0..(Len(req.files) - 1)}

\* C12: a MakeUnique of type (h) whose message has no descriptor at the index
\* it names fails with an invalid-args error, whatever the index (at or
\* beyond the length of the list, negative, or no list at all), and leaves
\* the blob table, the peer table and the descriptors of the daemon alone.
C12_NoDescriptorIsInvalidArgs ==
  \A s \in Senders, req \in NoDescriptorRequests, garbage \in Garbage :
    LET O == MakeUniqueOutcome(s, req, garbage, FALSE)
    IN CanReceive(req)
       => /\ O.reply \in {ErrorReply("G_DBUS_ERROR_INVALID_ARGS", m) :
                            m \in {"No fd passed", "Fd not sealed", "Can't read data"}}
          /\ O.D.blobs = blobs /\ O.D.peers = peers /\ O.D.fdtab = fdtab

-----------------------------------------------------------------------------
\* The handles tried in a Forget.
ForgetHandles == {U32(0), U32(1), U32(2), G_MAXUINT32}

\* The handles of ForgetHandles that are not keys of the sender's handle map.
UnknownHandles(s) ==
  {h \in ForgetHandles : s \notin DOMAIN peers \/ h \notin DOMAIN peers[s].blobs}

\* The record lookup_peer makes for a sender it does not know.
FreshPeer(s) == [name |-> s, next_blob_id |-> U32(1), blobs |-> EmptyTable]

\* C13 (as amended): Forget(h) of type (u) always replies with the empty
\* tuple.  When h is not a key of the sender's handle map, the blob table with
\* its reference counts, both size counters, the descriptors and every
\* existing peer record are left as they were; the peer table changes only
\* when the sender has no record, and then by gaining an empty record for the
\* sender whose counter is 1.  A second Forget(h) changes nothing at all.
C13_ForgetUnknownHandle ==
  \A s \in Senders :
    /\ \A h \in ForgetHandles :
         LET F == forget(D, s, "(u)", h)
             G == forget([F.D EXCEPT !.log = <<>>], s, "(u)", h)
         IN /\ F.reply = ReturnValue(<<>>, <<>>)
            /\ G.reply = ReturnValue(<<>>, <<>>)
            /\ [G.D EXCEPT !.log = <<>>] = [F.D EXCEPT !.log = <<>>]
            /\ F.D.log[1] = <<"Removing blob for peer", h, s>>
    /\ \A h \in UnknownHandles(s) :
         LET F == forget(D, s, "(u)", h)
         IN /\ F.D.blobs = blobs
            /\ F.D.real_blob_size = real_blob_size
            /\ F.D.apparent_blob_size = apparent_blob_size
            /\ F.D.fdtab = fdtab
            /\ F.D.log = <<<<"Removing blob for peer", h, s>>>>
            /\ F.D.peers = IF s \in DOMAIN peers THEN peers
                           ELSE TablePut(peers, s, FreshPeer(s))

\* A Forget of a handle that the sender does not hold has been served for a
\* sender without a record, while the other peer holds a blob.
C13_Witness ==
  /\ reply = ReturnValue(<<>>, <<>>)
  /\ log = <<<<"Removing blob for peer", G_MAXUINT32, SenderB>>>>
  /\ SenderB \in DOMAIN peers /\ peers[SenderB] = FreshPeer(SenderB)
  /\ issued[SenderB] = <<>>
  /\ SenderA \in DOMAIN peers /\ DOMAIN peers[SenderA].blobs # {}

\* C13 (as stated): a Forget(h) whose h is not a key of the sender's handle
\* map, the sender having a peer record or not, leaves the daemon state as
\* it was, the peer table included.
C13_ForgetUnknownIsNoOp ==
  \A s \in Senders :
    \A h \in UnknownHandles(s) :
      LET F == forget(D, s, "(u)", h)
      IN /\ F.reply = ReturnValue(<<>>, <<>>)
         /\ F.D.blobs = blobs
         /\ F.D.peers = peers
         /\ F.D.real_blob_size = real_blob_size
         /\ F.D.apparent_blob_size = apparent_blob_size

-----------------------------------------------------------------------------
\* The number x + n of handle allocations, as far as 32 bits hold it:
\* [over |-> whether the number is 2^32 or more, val |-> its low 32 bits].
RECURSIVE CountAfter(_, _)
CountAfter(x, n) ==
  IF n = 0 THEN [over |-> FALSE, val |-> x]
  ELSE LET c == CountAfter(x, n - 1)
       IN [over |-> c.over \/ c.val = G_MAXUINT32, val |-> U32Inc(c.val)]

\* C14: the k-th successful MakeUnique of a peer since its record was created
\* returns the handle k (issued_before allocations came before this
\* behaviour, so the i-th of the behaviour is number issued_before + i), and
\* the first MakeUnique of a fresh peer returns 1, whatever Forgets and
\* calls of other peers came in between.
C14_KthHandleIsK ==
  \A s \in Senders :
    \A i \in 1..Len(issued[s]) :
      LET k == CountAfter(issued_before[s], i)
      IN ~k.over /\ issued[s][i] = k.val

-----------------------------------------------------------------------------
\* The MakeUnique call of MakeUniqueOutcome served by the daemon in state E
\* (no descriptor read outside the list, no failure to duplicate).
MakeUniqueFrom(E, sender, req) ==
  LET R == ReceiveFds(E.fdtab, req.files)
      M == make_unique([E EXCEPT !.fdtab = R.tab, !.log = <<>>], sender, req.signature,
                       [null |-> req.null, fds |-> R.fds], req.handle, -1, FALSE)
  IN [D |-> AfterRequest(M, R), reply |-> M.reply]

\* The submission of the 14 bytes of HelloWorld as a sealed file.
SubmitHello == Request("(h)", FALSE, <<SealedFile(HelloWorld)>>, 0)

\* The four steps of the trace, from daemon state E.
TraceStep1(E) == MakeUniqueFrom(E, SenderA, SubmitHello)
TraceStep2(E) == MakeUniqueFrom(TraceStep1(E).D, SenderB, SubmitHello)
TraceStep3(E) == forget([TraceStep2(E).D EXCEPT !.log = <<>>], SenderA, "(u)", U32(1))
TraceStep4(E) ==
  name_owner_changed([TraceStep3(E).D EXCEPT !.log = <<>>], SenderB, SenderB, EmptyName)

\* Whether the daemon is as main() leaves it.
IsFreshDaemon ==
  /\ blobs = EmptyTable /\ peers = EmptyTable /\ fdtab = EmptyTable
  /\ real_blob_size = 0 /\ apparent_blob_size = 0

\* C15: on a fresh daemon and a content of 14 bytes, A.MakeUnique returns no
\* descriptor and handle 1 (real 14, apparent 14); then B.MakeUnique of the
\* same content returns one descriptor and handle 1, with one blob, real 14,
\* apparent 28; then A.Forget(1) leaves the blob with count 1, real 14,
\* apparent 14; then the disappearance of B removes B's record, destroys the
\* blob and leaves real 0, apparent 0 and an empty blob table.
C15_EndToEndTrace ==
  IsFreshDaemon =>
    LET h  == Sha256(HelloWorld)
        S1 == TraceStep1(D)
        S2 == TraceStep2(D)
        S3 == TraceStep3(D)
        S4 == TraceStep4(D)
    IN /\ Len(HelloWorld) = 14
       /\ S1.reply = ReturnValue(<<(<<>>), U32(1)>>, <<>>)
       /\ S1.D.real_blob_size = 14 /\ S1.D.apparent_blob_size = 14
       /\ DOMAIN S1.D.blobs = {h}
       /\ S2.reply.type = "return"
       /\ S2.reply.body = <<(<<0>>), U32(1)>>
       /\ Len(S2.reply.fd_list) = 1
       /\ S2.reply.fd_list[1].file.data = HelloWorld
       /\ DOMAIN S2.D.blobs = {h} /\ S2.D.blobs[h].ref_count = 2
       /\ S2.D.real_blob_size = 14 /\ S2.D.apparent_blob_size = 28
       /\ S3.reply = ReturnValue(<<>>, <<>>)
       /\ DOMAIN S3.D.blobs = {h} /\ S3.D.blobs[h].ref_count = 1
       /\ S3.D.real_blob_size = 14 /\ S3.D.apparent_blob_size = 14
       /\ SenderB \in DOMAIN S3.D.peers
       /\ SenderB \notin DOMAIN S4.peers
       /\ S4.blobs = EmptyTable
       /\ S4.real_blob_size = 0 /\ S4.apparent_blob_size = 0
       /\ S4.fdtab = EmptyTable
       /\ S4.log = <<<<"Blob destroyed", h>>, <<"Peer died", SenderB>>>>

\* The end of the trace: A was given handle 1 and has forgotten it, and the
\* death of B has destroyed the last blob.
C15_Witness ==
  /\ log = <<<<"Blob destroyed", Sha256(HelloWorld)>>, <<"Peer died", SenderB>>>>
  /\ blobs = EmptyTable /\ real_blob_size = 0 /\ apparent_blob_size = 0
  /\ DOMAIN peers = {SenderA}
  /\ peers[SenderA].blobs = EmptyTable /\ peers[SenderA].next_blob_id = U32(2)
  /\ issued[SenderA] = <<U32(1)>>

-----------------------------------------------------------------------------
(* Vocabulary of the properties about the client.                          *)

\* The indices of the buffers the caller holds.
LiveBuffers == {i \in 1..Len(gbytes) : gbytes[i].live}

\* Whether nothing of the client is under way between it and the daemon.
Quiescent == outq = <<>> /\ inq = <<>>

-----------------------------------------------------------------------------
\* C16: each handle the daemon returned in the reply to a synchronous
\* submission is carried by a live mapping record (of the buffer that was
\* returned) or a Forget with it has been sent: none is dropped.
C16_SyncHandleIsKeptOrForgotten ==
  \A h \in sent.replied_sync :
    \/ \E d \in DOMAIN records : records[d].id = h
    \/ h \in sent.forgot

-----------------------------------------------------------------------------
\* C17: a buffer the caller holds, returned by the synchronous or by the
\* asynchronous submit, reads back exactly the bytes submitted, the empty
\* sequence included, whatever the daemon answered and before as well as
\* after the reply handler ran.
C17_BufferReadsBack ==
  ~aborted =>
    \A i \in LiveBuffers :
      ReadBytes(maps, gbytes[i]) = [ok |-> TRUE, bytes |-> gbytes[i].bytes]

-----------------------------------------------------------------------------
\* C18: a buffer whose submission met a failure (making, sizing, writing or
\* sealing the file, mapping it, no bus, no reply) is a plain heap copy of the
\* caller's bytes, and every buffer the caller holds is backed by memory it
\* can read.
C18_FailureGivesHeapCopy ==
  ~aborted =>
    \A i \in LiveBuffers :
      /\ gbytes[i].failed => gbytes[i].kind = "copy" /\ gbytes[i].copy = gbytes[i].bytes
      /\ ReadBytes(maps, gbytes[i]).ok

-----------------------------------------------------------------------------
\* What make_unique_cb would do with the oldest reply.
CbOutcome(remap_fails) ==
  make_unique_cb(K, bus, Head(inq).user_data, Head(inq).reply, remap_fails)

\* The mappings of m other than the one at address a.
MappingsBut(m, a) == [x \in DOMAIN m \ {a} |-> m[x]]

\* C19: the address and the length of a buffer returned by the asynchronous
\* submit stay those of its record, and the reply handler keeps them: a
\* canonical descriptor in the reply is mapped read-only, with the record's
\* length, at the record's address and nowhere else, and the process aborts
\* when that mapping fails; with an empty fds array the mappings are left
\* untouched.  No other mapping is changed by the handler.
C19_AddressAndLengthAreKept ==
  ~aborted =>
    /\ \A i \in LiveBuffers :
         (gbytes[i].how = "async" /\ gbytes[i].kind = "mapped") =>
           /\ gbytes[i].user_data \in DOMAIN records
           /\ records[gbytes[i].user_data].data = gbytes[i].data
           /\ records[gbytes[i].user_data].len = gbytes[i].size
    /\ inq # <<>> =>
         \A remap_fails \in BOOLEAN :
           LET d == Head(inq).user_data
               r == records[d]
               res == Head(inq).reply
               hit == res.type = "return" /\ res.body[1] # <<>>
               R == CbOutcome(remap_fails)
               kept == d \in DOMAIN R.k.records
           IN /\ R.aborted = (hit /\ r.data \in DOMAIN maps /\ remap_fails)
              /\ ~R.aborted =>
                   /\ kept => /\ R.k.records[d].data = r.data
                              /\ R.k.records[d].len = r.len
                              /\ DOMAIN R.k.maps = DOMAIN maps
                   /\ MappingsBut(R.k.maps, r.data) = MappingsBut(maps, r.data)
                   /\ (kept /\ r.data \in DOMAIN maps) =>
                        R.k.maps[r.data] =
                          IF hit
                          THEN [fd |-> Fd(res.fd_list[1].file, TRUE), len |-> r.len,
                                prot |-> "PROT_READ"]
                          ELSE maps[r.data]

\* The reply handler has mapped the canonical descriptor under a buffer the
\* caller holds: the daemon's last reply carried a descriptor, the record of
\* the buffer has the handle of that reply, and the mapping at the buffer's
\* address is of the descriptor that came with a reply.
C19_Witness ==
  /\ ~aborted /\ inq = <<>> /\ outq = <<>>
  /\ reply.type = "return" /\ Len(reply.body) = 2 /\ reply.body[1] # <<>>
  /\ \E i \in LiveBuffers :
       /\ gbytes[i].how = "async" /\ gbytes[i].kind = "mapped"
       /\ gbytes[i].data \in DOMAIN maps
       /\ maps[gbytes[i].data].fd.received
       /\ records[gbytes[i].user_data].id = reply.body[2]
       /\ records[gbytes[i].user_data].id # U32(0)
       /\ SenderB \in DOMAIN peers /\ DOMAIN peers[SenderB].blobs # {}

-----------------------------------------------------------------------------
\* Whether nobody but buffer i's submission holds the content of buffer i:
\* the client has submitted it in no other call, the other peer holds no
\* handle to it.
NoOtherHolder(i) ==
  /\ \A j \in 1..Len(gbytes) : j # i => gbytes[j].bytes # gbytes[i].bytes
  /\ EntriesOfPeer(SenderB, Sha256(gbytes[i].bytes)) = {}

\* C20: when the client has dropped the buffer of an asynchronous submission
\* before the reply was dispatched, then once the reply and the Forget have
\* been delivered (nothing is under way any more) and nobody else holds the
\* content, the handle of the reply has been sent in a Forget, the client's
\* peer holds no handle to the blob and the blob is not in the blob table.
C20_EarlyDroppedIsForgotten ==
  (Quiescent /\ ~aborted) =>
    \A i \in 1..Len(gbytes) :
      (gbytes[i].how = "async" /\ gbytes[i].early /\ NoOtherHolder(i)) =>
        /\ Sha256(gbytes[i].bytes) \notin DOMAIN blobs
        /\ EntriesOfPeer(SenderA, Sha256(gbytes[i].bytes)) = {}

-----------------------------------------------------------------------------
\* C21: a MakeUnique that is answered with an error (wrong parameter type,
\* no descriptor at the index, descriptor not sealed or not readable, failure
\* to duplicate the stored descriptor for the reply) and a Forget that is
\* answered with an error leave the blob table with its reference counts, the
\* peer table with its handle maps and handle counters and both size counters
\* as they were at entry, and issue no handle; when the index is not negative
\* the daemon's descriptors are as before the message arrived, too.
C21_FailedCallChangesNothing ==
  /\ \A s \in Senders, req \in MakeUniqueRequests \cup NegativeRequests :
       \A garbage \in (IF req.handle < 0 THEN Garbage ELSE {-1}), dup_fails \in BOOLEAN :
         LET O == MakeUniqueOutcome(s, req, garbage, dup_fails)
         IN (CanReceive(req) /\ O.reply.type = "error")
            => /\ O.D.blobs = blobs
               /\ O.D.peers = peers
               /\ O.D.real_blob_size = real_blob_size
               /\ O.D.apparent_blob_size = apparent_blob_size
               /\ ~O.allocated
               /\ req.handle >= 0 => O.D.fdtab = fdtab
  /\ \A s \in Senders, signature \in {"(h)", "(u)"}, blob_id \in ForgetHandles :
       LET F == forget(D, s, signature, blob_id)
       IN F.reply.type = "error" => F.D = D

\* The daemon has failed to duplicate the descriptor of a stored blob for the
\* reply to a sender it has no record of, while the other peer holds the blob.
C21_Witness ==
  /\ reply = ErrorReply("G_DBUS_ERROR_FAILED", "Failed to dup fd")
  /\ log = <<>>
  /\ SenderB \notin DOMAIN peers
  /\ SenderA \in DOMAIN peers /\ DOMAIN peers[SenderA].blobs # {}
  /\ \A d \in DOMAIN blobs : blobs[d].ref_count = Cardinality(EntriesOf(d))

-----------------------------------------------------------------------------
\* The descriptor steal_one_fd_from_list hands to make_unique for a request
\* whose descriptors arrived as `fds`: the one at the index, or what is read
\* outside the array.
Extracted(req, fds, garbage) ==
  IF req.signature # "(h)" \/ req.null \/ req.handle >= Len(fds) THEN -1
  ELSE IF req.handle >= 0 THEN fds[req.handle + 1] ELSE garbage

\* The blobs of daemon state E whose descriptor is fd.
BlobsStoring(E, fd) == {d \in DOMAIN E.blobs : E.blobs[d].fd = fd}

\* Whether descriptor fd is, in daemon state E, open and the descriptor of
\* exactly one blob, or closed and the descriptor of none.
StoredOrClosed(E, fd) ==
  IF fd \in DOMAIN E.fdtab THEN Cardinality(BlobsStoring(E, fd)) = 1
  ELSE BlobsStoring(E, fd) = {}

\* C22: when the MakeUnique handler has extracted a descriptor from the
\* request (miss, hit and every error return after the extraction), then at
\* return that descriptor is either open and the descriptor of exactly one
\* blob, or closed and the descriptor of no blob: it is not both stored and
\* closed, and not open without a blob that owns it.
C22_ExtractedIsStoredOrClosed ==
  \A s \in Senders, req \in MakeUniqueRequests \cup NegativeRequests :
    \A garbage \in (IF req.handle < 0 THEN Garbage ELSE {-1}), dup_fails \in BOOLEAN :
      LET O == MakeUniqueOutcome(s, req, garbage, dup_fails)
          fd == Extracted(req, O.fds, garbage)
      IN (CanReceive(req) /\ fd # -1) => StoredOrClosed(O.D, fd)

-----------------------------------------------------------------------------
\* C23: a blob is in the blob table exactly while its reference count is
\* positive and entries point at it: every blob of the table has a positive
\* count and an open descriptor, every (peer, handle) entry points at a blob
\* of the table, and no descriptor is open that no blob of the table owns.
\* A Forget of an entry, or the death of a peer, that takes the count of a
\* blob to zero removes the blob from the table and closes its descriptor; one
\* that leaves the count positive leaves the blob in the table with its
\* descriptor open, replies with that descriptor handed out or not.
C23_BlobLivesWhileReferenced ==
  /\ \A d \in DOMAIN blobs :
       /\ blobs[d].ref_count > 0
       /\ blobs[d].fd \in DOMAIN fdtab
       /\ EntriesOf(d) # {}
  /\ \A e \in Entries : peers[e[1]].blobs[e[2]] \in DOMAIN blobs
  /\ \A fd \in DOMAIN fdtab : BlobsStoring(D, fd) # {}
  /\ \A e \in Entries :
       LET d == peers[e[1]].blobs[e[2]]
           F == forget(D, e[1], "(u)", e[2])
       IN IF blobs[d].ref_count = 1
          THEN d \notin DOMAIN F.D.blobs /\ blobs[d].fd \notin DOMAIN F.D.fdtab
          ELSE /\ d \in DOMAIN F.D.blobs
               /\ F.D.blobs[d].fd = blobs[d].fd
               /\ F.D.fdtab[blobs[d].fd] = fdtab[blobs[d].fd]
  /\ \A s \in Senders :
       LET E == AfterDeath(s)
       IN \A d \in DOMAIN blobs :
            IF EntriesOf(d) \subseteq EntriesOfPeer(s, d)
            THEN d \notin DOMAIN E.blobs /\ blobs[d].fd \notin DOMAIN E.fdtab
            ELSE d \in DOMAIN E.blobs /\ blobs[d].fd \in DOMAIN E.fdtab

-----------------------------------------------------------------------------
\* C24: every key of the blob table is the digest of the bytes behind that
\* blob's descriptor (and is the sha256 field of the blob); hence no two
\* blobs of the table hold the same bytes, and the descriptor attached to the
\* reply on a hit refers to a file with the bytes the caller submitted.
C24_KeyIsDigestOfContent ==
  /\ \A d \in DOMAIN blobs :
       /\ blobs[d].sha256 = d
       /\ blobs[d].fd \in DOMAIN fdtab =>
            /\ d = Sha256(fdtab[blobs[d].fd].data)
            /\ blobs[d].len = Len(fdtab[blobs[d].fd].data)
  /\ \A d1, d2 \in DOMAIN blobs :
       (/\ d1 # d2
        /\ blobs[d1].fd \in DOMAIN fdtab
        /\ blobs[d2].fd \in DOMAIN fdtab)
       => fdtab[blobs[d1].fd].data # fdtab[blobs[d2].fd].data
  /\ \A s \in Senders, req \in GoodRequests :
       LET O == MakeUniqueOutcome(s, req, -1, FALSE)
       IN (CanReceive(req) /\ O.reply.type = "return" /\ O.reply.fd_list # <<>>)
          => O.reply.fd_list[1].file.data = SubmittedFile(req).data

-----------------------------------------------------------------------------
\* C25: in every state between handler invocations, every open descriptor
\* that is the descriptor of a blob refers to a memfd with all four seals
\* (F_SEAL_SEAL, F_SEAL_SHRINK, F_SEAL_GROW, F_SEAL_WRITE), and no MakeUnique,
\* whatever file it submits, stores a descriptor that lacks one of them: a
\* call that adds a blob adds one whose file has the four seals.
C25_StoredDescriptorsAreSealed ==
  /\ \A d \in DOMAIN blobs :
       blobs[d].fd \in DOMAIN fdtab =>
         /\ fdtab[blobs[d].fd].memfd
         /\ ALL_SEALS \subseteq fdtab[blobs[d].fd].seals
  /\ \A s \in Senders, req \in MakeUniqueRequests \cup NegativeRequests :
       \A garbage \in (IF req.handle < 0 THEN Garbage ELSE {-1}) :
         LET O == MakeUniqueOutcome(s, req, garbage, FALSE)
         IN CanReceive(req) =>
              \A d \in DOMAIN O.D.blobs :
                O.D.blobs[d].fd \in DOMAIN O.D.fdtab =>
                  /\ O.D.fdtab[O.D.blobs[d].fd].memfd
                  /\ ALL_SEALS \subseteq O.D.fdtab[O.D.blobs[d].fd].seals

\* A file that lacks only the write seal has been refused by a daemon that
\* stores two blobs, both on sealed descriptors.
C25_Witness ==
  /\ reply = ErrorReply("G_DBUS_ERROR_INVALID_ARGS", "Fd not sealed")
  /\ Cardinality(DOMAIN blobs) = 2
  /\ \A d \in DOMAIN blobs :
       /\ blobs[d].fd \in DOMAIN fdtab
       /\ fdtab[blobs[d].fd].seals = ALL_SEALS

-----------------------------------------------------------------------------
\* A unique name that never called the daemon.
Stranger == <<":", "1", ".", "9">>

\* C26: a NameOwnerChanged that reports the disappearance of a unique name
\* with no Peer record (never seen, or removed by an earlier such signal)
\* leaves the blob table, the peer table, both size counters and the
\* descriptors as they were and logs nothing; hence the state after two
\* consecutive disappearances of a name is the state after one.
C26_PeerDeathIsIdempotent ==
  \A s \in Senders \cup {Stranger} :
    LET E1 == AfterDeath(s)
        E2 == name_owner_changed([E1 EXCEPT !.log = <<>>], s, s, EmptyName)
    IN /\ s \notin DOMAIN peers => E1 = D
       /\ s \notin DOMAIN E1.peers
       /\ E2 = [E1 EXCEPT !.log = <<>>]

\* The disappearance of SenderA has been reported a second time, while
\* SenderB holds a blob: nothing was logged and nothing replied.
C26_Witness ==
  /\ reply = NoReply
  /\ log = <<>>
  /\ SenderA \notin DOMAIN peers
  /\ SenderB \in DOMAIN peers /\ DOMAIN peers[SenderB].blobs # {}
  /\ DOMAIN blobs # {}

-----------------------------------------------------------------------------
\* The references to record d: those of the buffers the caller holds and
\* those of the asynchronous calls made for it whose reply has not been
\* dispatched.
HoldersOf(d) ==
  Cardinality({i \in LiveBuffers : gbytes[i].kind = "mapped" /\ gbytes[i].user_data = d})
    + Cardinality({i \in 1..Len(outq) : outq[i].method = "MakeUnique" /\ outq[i].user_data = d})
    + Cardinality({i \in 1..Len(inq) : inq[i].user_data = d})

\* The Forget messages among the client's messages under way.
ForgetsIn(q) == {i \in 1..Len(q) : q[i].method = "Forget"}

\* C27: releasing a reference to a mapping record (mapped_data_unref) that
\* takes the count to zero unmaps the record's range, frees the record and,
\* if and only if the record's handle is not 0, sends one Forget with that
\* handle; releasing a reference that leaves the count positive sends
\* nothing, unmaps nothing and keeps the record.  A record exists exactly
\* while it has holders, its count being their number, so a record is freed,
\* and its Forget sent, once.
C27_ForgetAtLastUnref ==
  ~aborted =>
    /\ \A d \in DOMAIN records :
         /\ records[d].ref_count = HoldersOf(d)
         /\ records[d].ref_count > 0
         /\ records[d].id # U32(0) => bus
    /\ \A d \in DOMAIN records :
         LET r == records[d]
             U == mapped_data_unref(K, bus, d)
         IN IF r.ref_count = 1
            THEN /\ d \notin DOMAIN U.records
                 /\ r.data \notin DOMAIN U.maps
                 /\ MappingsBut(U.maps, r.data) = MappingsBut(maps, r.data)
                 /\ IF r.id # U32(0)
                    THEN /\ U.outq = Append(outq, Message("Forget", NoFile, r.id, NULL))
                         /\ U.forgot = sent.forgot \cup {r.id}
                    ELSE U.outq = outq /\ U.forgot = sent.forgot
            ELSE /\ U.records = [records EXCEPT ![d].ref_count = r.ref_count - 1]
                 /\ U.maps = maps
                 /\ U.outq = outq /\ U.forgot = sent.forgot
    /\ Cardinality(ForgetsIn(outq)) <= Cardinality(sent.forgot)

\* The caller has dropped a buffer whose record carried a handle of the
\* daemon: the record is freed, its range unmapped, and the Forget with that
\* handle is on its way.
C27_Witness ==
  /\ ~aborted
  /\ records = EmptyTable /\ maps = EmptyTable
  /\ Len(gbytes) = 1 /\ ~gbytes[1].live /\ gbytes[1].kind = "mapped"
  /\ Len(outq) = 1 /\ outq[1].method = "Forget"
  /\ outq[1].id # U32(0) /\ outq[1].id \in sent.forgot

-----------------------------------------------------------------------------
\* The records for which an asynchronous call is outstanding: sent and not
\* handled by the daemon, or answered and the reply not dispatched.
PendingRecords ==
  {outq[i].user_data : i \in {j \in 1..Len(outq) : outq[j].method = "MakeUnique"
                                                     /\ outq[j].user_data # NULL}}
    \cup {inq[i].user_data : i \in 1..Len(inq)}

\* The records of the mapped buffers, held or dropped by the caller.
BufferRecords == {gbytes[i].user_data : i \in {j \in 1..Len(gbytes) : gbytes[j].kind = "mapped"}}

\* C28: while an asynchronous MakeUnique call is outstanding its record is
\* alive with a count that includes the reference of the call, also when the
\* caller has dropped the buffer, and the range of the record is still mapped
\* (when the first mmap gave a range); the reply handler therefore finds the
\* record and its range, and after it has run the record is alive exactly
\* when the caller still holds the buffer.  A record is freed when both
\* references are released and not before: every record has a holder, and a
\* record without a holder is not in the table.
C28_PendingCallHoldsRecord ==
  ~aborted =>
    /\ \A d \in PendingRecords :
         /\ d \in DOMAIN records
         /\ records[d].ref_count >= 1
         /\ records[d].data # MAP_FAILED => records[d].data \in DOMAIN maps
    /\ \A d \in DOMAIN records :
         /\ records[d].ref_count = HoldersOf(d)
         /\ HoldersOf(d) \in {1, 2}
    /\ \A d \in BufferRecords : HoldersOf(d) = 0 => d \notin DOMAIN records
    /\ inq # <<>> =>
         \A remap_fails \in BOOLEAN :
           LET d == Head(inq).user_data
               R == CbOutcome(remap_fails)
               held == \E i \in LiveBuffers : gbytes[i].kind = "mapped" /\ gbytes[i].user_data = d
           IN ~R.aborted =>
                /\ (d \in DOMAIN R.k.records) = held
                /\ held => /\ R.k.records[d].ref_count = 1
                           /\ records[d].data # MAP_FAILED => records[d].data \in DOMAIN R.k.maps
                /\ ~held => records[d].data \notin DOMAIN R.k.maps

\* The caller has dropped the buffer while the reply was on its way: the
\* record is alive with the one reference of the call, its range still mapped.
C28_Witness ==
  /\ ~aborted
  /\ Len(inq) = 1 /\ Head(inq).reply.type = "return"
  /\ Len(gbytes) = 1 /\ ~gbytes[1].live /\ gbytes[1].early
  /\ gbytes[1].user_data = Head(inq).user_data
  /\ records[gbytes[1].user_data].ref_count = 1
  /\ records[gbytes[1].user_data].data \in DOMAIN maps

-----------------------------------------------------------------------------
\* C29: once the synchronous submit has returned, whichever way the call
\* went (reply with a descriptor, reply without, no reply, no bus, a failure
\* in making the file), the client process has none of the descriptors of
\* that call open: not the one of the anonymous file, not the duplicate the
\* request's descriptor list held, not one of the reply's list.
C29_SyncLeavesNoDescriptor ==
  (~aborted /\ \E i \in 1..Len(gbytes) : gbytes[i].how = "sync") => cfds = EmptyTable

-----------------------------------------------------------------------------
\* C30: the daemon issues the handle 0 to no peer, however many handles the
\* peer's 32-bit counter has given out: no handle returned by a MakeUnique is
\* 0 and no entry of a handle map has the key 0, so that no mapping record of
\* the client that was given a handle carries the value 0, which
\* mapped_data_new sets for "no handle" and mapped_data_unref sends no Forget
\* for.
C30_HandleZeroIsNeverIssued ==
  /\ \A s \in Senders : \A i \in 1..Len(issued[s]) : issued[s][i] # U32(0)
  /\ \A e \in Entries : e[2] # U32(0)

-----------------------------------------------------------------------------
\* The sum of the reference counts of the blobs of a blob table.
RECURSIVE SumRefCount(_, _)
SumRefCount(B, S) ==
  IF S = {} THEN 0
  ELSE LET d == CHOOSE x \in S : TRUE IN B[d].ref_count + SumRefCount(B, S \ {d})

\* C31: a Forget(h) of sender s changes no other peer: every other Peer
\* record (handle map and counter) is as it was and no other record is made
\* or removed, also when another peer holds the same number h or a handle to
\* the same blob.  Of s's own record the counter stays and the map loses the
\* entry for h and nothing else.  At most one reference is released: the
\* counts of all blobs together go down by one when s held h and not at all
\* otherwise, and only the blob that entry pointed at is touched.
C31_ForgetTouchesOnlyTheSender ==
  \A s \in Senders :
    \A h \in ForgetHandles \cup (IF s \in DOMAIN peers THEN DOMAIN peers[s].blobs ELSE {}) :
      LET F == forget(D, s, "(u)", h)
          own == IF s \in DOMAIN peers THEN peers[s] ELSE FreshPeer(s)
          held == h \in DOMAIN own.blobs
      IN /\ DOMAIN F.D.peers = DOMAIN peers \cup {s}
         /\ \A p \in DOMAIN peers \ {s} : F.D.peers[p] = peers[p]
         /\ F.D.peers[s] = [own EXCEPT !.blobs = TableDel(@, h)]
         /\ DOMAIN F.D.blobs \subseteq DOMAIN blobs
         /\ IF held
            THEN /\ \A d \in DOMAIN blobs \ {own.blobs[h]} :
                      d \in DOMAIN F.D.blobs /\ F.D.blobs[d] = blobs[d]
                 /\ SumRefCount(F.D.blobs, DOMAIN F.D.blobs)
                      = SumRefCount(blobs, DOMAIN blobs) - 1
            ELSE F.D.blobs = blobs

\* SenderA has forgotten its handle 1 while SenderB holds the same number 1
\* for the same blob: SenderB's entry is there and the blob has one reference.
C31_Witness ==
  /\ log = <<<<"Removing blob for peer", U32(1), SenderA>>>>
  /\ reply = ReturnValue(<<>>, <<>>)
  /\ SenderA \in DOMAIN peers /\ U32(1) \notin DOMAIN peers[SenderA].blobs
  /\ SenderB \in DOMAIN peers /\ U32(1) \in DOMAIN peers[SenderB].blobs
  /\ peers[SenderB].blobs[U32(1)] = Sha256(HelloWorld)
  /\ blobs[Sha256(HelloWorld)].ref_count = 1

-----------------------------------------------------------------------------
\* Sender s submits request req n times in a row, starting from daemon state
\* E: [D |-> the daemon afterwards, handles |-> the handles returned, in order].
RECURSIVE SubmitTimes(_, _, _, _)
SubmitTimes(E, s, req, n) ==
  IF n = 0 THEN [D |-> E, handles |-> <<>>]
  ELSE LET P == SubmitTimes(E, s, req, n - 1)
           M == MakeUniqueFrom(P.D, s, req)
       IN [D |-> M.D, handles |-> Append(P.handles, M.reply.body[2])]

\* Sender s forgets the handles of the set H, one after the other, from
\* daemon state E.
RECURSIVE ForgetAll(_, _, _)
ForgetAll(E, s, H) ==
  IF H = {} THEN E
  ELSE LET h == CHOOSE x \in H : TRUE
       IN ForgetAll(forget(E, s, "(u)", h).D, s, H \ {h})

\* Submissions in a row that are tried.
MaxSubmits == 3

\* C32: when a peer submits the same content n times in a row, the n handles
\* returned are pairwise different and different from the handles it held,
\* each is an entry of the peer for the one blob of that content, whose
\* count has grown by n; apparent_blob_size has grown by n times the length
\* and real_blob_size by the length if the blob is new and by nothing
\* otherwise.  Forgetting all but one of the n handles, whichever is kept,
\* leaves the blob in the table; forgetting all n leaves it in the table
\* exactly when an entry, of this or another peer, pointed at it before.
C32_RepeatedSubmissions ==
  \A s \in Senders, c \in Contents, n \in 1..MaxSubmits :
    LET req == Request("(h)", FALSE, <<SealedFile(c)>>, 0)
        d == Sha256(c)
        R == SubmitTimes(D, s, req, n)
        H == Range(R.handles)
        old == IF s \in DOMAIN peers THEN DOMAIN peers[s].blobs ELSE {}
        before == IF d \in DOMAIN blobs THEN blobs[d].ref_count ELSE 0
    IN Cardinality(DOMAIN fdtab) + 2 <= MaxFd + 1
       => /\ Cardinality(H) = n
          /\ H \cap old = {}
          /\ \A h \in H : <<s, h>> \in EntriesOfIn(R.D.peers, d)
          /\ d \in DOMAIN R.D.blobs
          /\ R.D.blobs[d].ref_count = before + n
          /\ R.D.apparent_blob_size = apparent_blob_size + n * Len(c)
          /\ R.D.real_blob_size = real_blob_size + (IF d \in DOMAIN blobs THEN 0 ELSE Len(c))
          /\ \A keep \in H : d \in DOMAIN ForgetAll(R.D, s, H \ {keep}).blobs
          /\ (d \in DOMAIN ForgetAll(R.D, s, H).blobs) = (EntriesOf(d) # {})

====
